---- MODULE Spec2Model ----
(***************************************************************************)
(* MicroMath+ : parser -> compiler -> stack virtual machine.               *)
(*                                                                         *)
(* Strings are sequences of one-character strings; positions and iterators *)
(* are 0-based offsets as in the C++ source (s.begin() is 0, s.end() is    *)
(* Len(s)), string::npos is -1.                                            *)
(***************************************************************************)
EXTENDS Integers, Sequences, FiniteSets, TLC

\* ------------------------------------------------------------------------
\* Characters
\* ------------------------------------------------------------------------
Digits == {"0", "1", "2", "3", "4", "5", "6", "7", "8", "9"}

LowerCase == {"a", "b", "c", "d", "e", "f", "g", "h", "i", "j", "k", "l", "m",
              "n", "o", "p", "q", "r", "s", "t", "u", "v", "w", "x", "y", "z"}

UpperCase == {"A", "B", "C", "D", "E", "F", "G", "H", "I", "J", "K", "L", "M",
              "N", "O", "P", "Q", "R", "S", "T", "U", "V", "W", "X", "Y", "Z"}

OPENPAR == "("

CLOSEPAR == ")"

ARGS_SEPARATOR == ","

BLANK == " "

RPN_SEPARATOR == " "

OPEN_ARG_PAR == "["

CLOSE_ARG_PAR == "]"

DOT == "."

PLUS == "+"

MINUS == "-"

UNDER_BAR == "_"

\* toupper( ch ) == 'E'
IsE(ch) == ch \in {"E", "e"}

IsDigit(ch) == ch \in Digits

\* isspace for the characters an input line can hold
IsSpace(ch) == ch = " "

npos == -1

\* ------------------------------------------------------------------------
\* std::string operations
\* ------------------------------------------------------------------------
Min(a, b) == IF a < b THEN a ELSE b

Max(a, b) == IF a > b THEN a ELSE b

\* s[ i ]
At(s, i) == s[i + 1]

\* std::string( s.begin() + b, s.begin() + e ): the half-open range [b, e)
Range(s, b, e) == SubSeq(s, b + 1, e)

\* s.substr( pos, n )
Substr(s, pos, n) == SubSeq(s, pos + 1, Min(pos + n, Len(s)))

\* s.replace( pos, n, r ): n is clipped to the end of the string
Replace(s, pos, n, r) ==
  SubSeq(s, 1, pos) \o r \o SubSeq(s, Min(pos + n, Len(s)) + 1, Len(s))

\* std::string( n, ch )
Fill(n, ch) == [i \in 1..n |-> ch]

\* does t occur in s at offset i ?
OccursAt(s, t, i) ==
  /\ i >= 0
  /\ i + Len(t) <= Len(s)
  /\ \A k \in 1..Len(t) : s[i + k] = t[k]

\* s.find( t, start )
Find(s, t, start) ==
  LET hits == {i \in start..(Len(s) - Len(t)) : OccursAt(s, t, i)}
  IN  IF hits = {} THEN npos ELSE CHOOSE i \in hits : \A j \in hits : i <= j

\* s.rfind( ch, from ): last offset <= from holding ch
RFindCh(s, ch, from) ==
  LET hits == {i \in 0..Min(from, Len(s) - 1) : At(s, i) = ch}
  IN  IF hits = {} THEN npos ELSE CHOOSE i \in hits : \A j \in hits : i >= j

\* std::find( s.begin() + from, s.end(), ch ) - s.begin()
FindCh(s, ch, from) ==
  LET hits == {i \in from..(Len(s) - 1) : At(s, i) = ch}
  IN  IF hits = {} THEN Len(s) ELSE CHOOSE i \in hits : \A j \in hits : i <= j

\* ------------------------------------------------------------------------
\* match_number: stateful predicate, true while the characters read form a
\* floating point number (it also accepts 1.2E and 1.2E-).
\* ------------------------------------------------------------------------
match_number_new == [dot_found |-> FALSE, E_pos |-> -1, cnt |-> -1]

\* match_number with a fault: a decimal point after the exponent letter is
\* taken like one before it
match_number_dot_after_E(st, ch) ==
  LET cnt == st.cnt + 1
      no  == [ok |-> FALSE, st |-> match_number_new]
      yes == [ok |-> TRUE, st |-> [st EXCEPT !.cnt = cnt]]
  IN  IF IsDigit(ch) THEN yes
      ELSE IF ch = DOT
        THEN IF ~st.dot_found
               THEN [ok |-> TRUE, st |-> [st EXCEPT !.cnt = cnt, !.dot_found = TRUE]]
               ELSE no
      ELSE IF IsE(ch) /\ cnt = 0 THEN no
      ELSE IF IsE(ch) /\ st.E_pos < 0
        THEN [ok |-> TRUE, st |-> [st EXCEPT !.cnt = cnt, !.E_pos = cnt]]
      ELSE IF ch \in {PLUS, MINUS} /\ st.E_pos >= 0 /\ st.E_pos = cnt - 1 THEN yes
      ELSE no

\* one call of match_number::operator(): the answer and the state left
match_number(st, ch) ==
  LET cnt == st.cnt + 1
      no  == [ok |-> FALSE, st |-> match_number_new]
      yes == [ok |-> TRUE, st |-> [st EXCEPT !.cnt = cnt]]
  IN  IF IsDigit(ch) THEN yes
      ELSE IF ch = DOT
        THEN IF st.E_pos >= 0 THEN no
             ELSE IF ~st.dot_found
               THEN [ok |-> TRUE, st |-> [st EXCEPT !.cnt = cnt, !.dot_found = TRUE]]
               ELSE no
      ELSE IF IsE(ch) /\ cnt = 0 THEN no
      ELSE IF IsE(ch) /\ st.E_pos < 0
        THEN [ok |-> TRUE, st |-> [st EXCEPT !.cnt = cnt, !.E_pos = cnt]]
      ELSE IF ch \in {PLUS, MINUS} /\ st.E_pos >= 0 /\ st.E_pos = cnt - 1 THEN yes
      ELSE no

\* ------------------------------------------------------------------------
\* match_name: stateful predicate, true while the characters read form an
\* identifier. It keeps the last two characters read and its own
\* match_number, neither of which reset() clears.
\* ------------------------------------------------------------------------
match_name_new ==
  [cnt |-> -1, n_cnt |-> -1, buf0 |-> " ", buf1 |-> " ", mn |-> match_number_new]

match_name(st, ch) ==
  LET cnt   == st.cnt + 1
      n_cnt == st.n_cnt + 1
      buf0  == IF n_cnt % 2 = 0 THEN ch ELSE st.buf0
      buf1  == IF n_cnt % 2 = 1 THEN ch ELSE st.buf1
      isE   == cnt = 0 /\ IsE(ch)
      \* match_number_( tmp_buf_[ 0 ] ) || match_number_( tmp_buf_[ 1 ] ): the
      \* second call is made only when the first one answers false
      either(m0) == IF m0.ok THEN m0 ELSE match_number(m0.st, buf1)
      answer(ok, c, mn) ==
        [ok |-> ok,
         st |-> [cnt |-> c, n_cnt |-> n_cnt, buf0 |-> buf0, buf1 |-> buf1,
                 mn |-> mn.st]]
      decide(mn) ==
        IF isE /\ mn.ok THEN answer(FALSE, -1, mn)
        ELSE IF ch \in LowerCase \/ ch \in UpperCase \/ ch = UNDER_BAR
          THEN answer(TRUE, cnt, mn)
        ELSE IF IsDigit(ch) /\ cnt > 0 THEN answer(TRUE, cnt, mn)
        ELSE answer(FALSE, -1, mn)
  IN  IF isE THEN decide(either(match_number(st.mn, buf0)))
      ELSE decide([ok |-> FALSE, st |-> st.mn])

\* ------------------------------------------------------------------------
\* mmath_plus::find_if over a stateful predicate, and search_range
\* ------------------------------------------------------------------------
PredNew(kind) == IF kind = "number" THEN match_number_new ELSE match_name_new

PredCall(kind, st, ch) ==
  IF kind = "number" THEN match_number(st, ch) ELSE match_name(st, ch)

\* first offset in [i, e) where the predicate answers `want`; e when none
RECURSIVE find_if(_, _, _, _, _, _)
find_if(kind, want, s, i, e, st) ==
  LET next(r) == IF r.ok = want THEN i
                 ELSE find_if(kind, want, s, i + 1, e, r.st)
  IN  IF i >= e THEN e ELSE next(PredCall(kind, st, At(s, i)))

\* the half-open range [first, second) on which the predicate holds
search_range(kind, s, b, e) ==
  LET range(f) ==
        IF f = e THEN [first |-> e, second |-> e]
        ELSE [first |-> f, second |-> find_if(kind, FALSE, s, f, e, PredNew(kind))]
  IN  range(find_if(kind, TRUE, s, b, e, PredNew(kind)))

\* ------------------------------------------------------------------------
\* Parenthesis matching
\* ------------------------------------------------------------------------
\* find_if( s.begin() + i, s.begin() + e, match_opening ): the counter starts
\* at 0 and the first character is expected to be the opening parenthesis
RECURSIVE match_opening(_, _, _, _)
match_opening(s, i, e, cnt) ==
  IF i >= e THEN e
  ELSE LET c == IF At(s, i) = OPENPAR THEN cnt + 1
                ELSE IF At(s, i) = CLOSEPAR THEN cnt - 1 ELSE cnt
       IN  IF c = 0 THEN i ELSE match_opening(s, i + 1, e, c)

\* iterator overload: the offset of the matching ')' or e
forward_parenthesis_match(s, i, e) == match_opening(s, i, e, 0)

\* std::string overload: npos when there is no match
forward_parenthesis_match_pos(s, i) ==
  LET it == match_opening(s, i, Len(s), 0)
  IN  IF it = Len(s) THEN npos ELSE it

\* find_if over reverse iterators with match_closing: the counter starts at 1
\* and the scan at the character before offset i; npos stands for rend()
RECURSIVE match_closing(_, _, _)
match_closing(s, i, cnt) ==
  IF i < 0 THEN npos
  ELSE LET c == IF At(s, i) = OPENPAR THEN cnt - 1
                ELSE IF At(s, i) = CLOSEPAR THEN cnt + 1 ELSE cnt
       IN  IF c = 0 THEN i ELSE match_closing(s, i - 1, c)

\* both overloads: the offset of the matching '(' for the ')' at offset i
backward_parenthesis_match(s, i) == match_closing(s, i - 1, 1)

\* ------------------------------------------------------------------------
\* Operator descriptors (operator_type) and the table the console program
\* hands to the parser
\* ------------------------------------------------------------------------
op_t(n, o, l, r, out, s) ==
  [name |-> n, operands |-> o, largs |-> l, rargs |-> r, outvals |-> out, swap |-> s]

ops_array ==
  << op_t(<<"c", "r", "o", "s", "s", "3">>, 1, 0, 6, 3, FALSE),
     op_t(<<"^">>, 2, 1, 1, 1, FALSE),
     op_t(<<"*">>, 2, 3, 3, 1, FALSE),
     op_t(<<"*">>, 2, 1, 1, 1, FALSE),
     op_t(<<"/">>, 2, 1, 1, 1, FALSE),
     op_t(<<"-">>, 1, 0, 1, 1, FALSE),
     op_t(<<"-">>, 2, 1, 1, 1, FALSE),
     op_t(<<"-">>, 2, 3, 3, 3, FALSE),
     op_t(<<"+">>, 2, 3, 3, 3, FALSE),
     op_t(<<"+">>, 2, 1, 1, 1, FALSE),
     op_t(<<"=">>, 2, 1, 1, 1, TRUE),
     op_t(<<"=">>, 2, 3, 3, 3, TRUE) >>

\* find_if( operators_.begin(), operators_.end(), findop( fname ) ) != end
findop(ops, fname) == \E k \in 1..Len(ops) : ops[k].name = fname

\* ------------------------------------------------------------------------
\* math_parser::search_function / search_name / search_number
\* A range is [first, second]; (e, e) means nothing found.
\* ------------------------------------------------------------------------
RECURSIVE search_function(_, _, _, _)
search_function(ops, s, b, e) ==
  LET found(r) ==
        IF r.first = e THEN r
        ELSE IF r.second # e /\ At(s, r.second) = OPENPAR
          THEN IF findop(ops, Range(s, r.first, r.second))
                 THEN search_function(ops, s, r.second, e)
                 ELSE [first |-> r.first,
                       second |-> forward_parenthesis_match(s, r.second, e)]
        ELSE search_function(ops, s, r.second, e)
  IN  found(search_range("name", s, b, e))

RECURSIVE search_name(_, _, _, _)
search_name(ops, s, b, e) ==
  LET found(r) ==
        IF r.first = e THEN r
        ELSE IF r.second = e \/ At(s, r.second) # OPENPAR
          THEN IF findop(ops, Range(s, r.first, r.second))
                 THEN search_name(ops, s, r.second, e)
                 ELSE [first |-> r.first, second |-> r.second - 1]
        ELSE search_name(ops, s, r.second, e)
  IN  found(search_range("name", s, b, e))

\* the range found, and err = "InvalidName" when a name follows the number
NumRange(f, l) == [first |-> f, second |-> l, err |-> "none"]

RECURSIVE search_number(_, _, _, _, _)
search_number(ops, s, b, e, start) ==
  LET \* the number r is the tail of a name when a name v starts before its end
      after_name(r, v) ==
        IF v.first < r.second THEN search_number(ops, s, r.second, e, start)
        ELSE NumRange(r.first, r.second - 1)
      next_number(q) == NumRange(q.first, q.second)
      \* nr: the name found from the character before the number
      not_at_start(r, nr) ==
        IF nr.first # r.second THEN search_number(ops, s, r.second, e, start)
        ELSE IF ~IsDigit(At(s, r.second - 1))
          THEN next_number(search_range("number", s, r.second, e))
        ELSE after_name(r, search_name(ops, s, r.first - 1, e))
      \* rn: the name found from the end of the number
      followed_by(r, rn) ==
        IF rn.first = r.second /\ rn.first # e
          THEN [first |-> e, second |-> e, err |-> "InvalidName"]
        ELSE IF r.first = start THEN NumRange(r.first, r.second - 1)
        ELSE not_at_start(r, search_range("name", s, r.first - 1, r.second))
      found(r) ==
        IF r.first = e THEN NumRange(e, e)
        ELSE followed_by(r, search_name(ops, s, r.second, e))
  IN  IF b = e THEN NumRange(e, e)
      ELSE found(search_range("number", s, b, e))

\* ------------------------------------------------------------------------
\* math_parser::validate
\* ------------------------------------------------------------------------
\* the parenthesis check: the first unmatched parenthesis from the left
\* check_parentheses with a fault: closing parentheses are not checked
RECURSIVE check_parentheses_opening_only(_, _)
check_parentheses_opening_only(s, i) ==
  IF i >= Len(s) THEN "none"
  ELSE IF At(s, i) = OPENPAR /\ forward_parenthesis_match(s, i, Len(s)) = Len(s)
    THEN "UnmatchedOpeningPar"
  ELSE check_parentheses_opening_only(s, i + 1)

RECURSIVE check_parentheses(_, _)
check_parentheses(s, i) ==
  IF i >= Len(s) THEN "none"
  ELSE IF At(s, i) = OPENPAR /\ forward_parenthesis_match(s, i, Len(s)) = Len(s)
    THEN "UnmatchedOpeningPar"
  ELSE IF At(s, i) = CLOSEPAR /\ backward_parenthesis_match(s, i) = npos
    THEN "UnmatchedClosingPar"
  ELSE check_parentheses(s, i + 1)

\* replace numbers with blanks; err is set when search_number throws
RECURSIVE blank_numbers(_, _)
blank_numbers(ops, t) ==
  LET found(r) ==
        IF r.err # "none" THEN [err |-> r.err, str |-> t]
        ELSE IF r.first = Len(t) THEN [err |-> "none", str |-> t]
        ELSE blank_numbers(ops,
               Replace(t, r.first, r.second - r.first + 1,
                       Fill(r.second - r.first + 1, BLANK)))
  IN  found(search_number(ops, t, 0, Len(t), 0))

\* replace every occurrence of one operator name with blanks
RECURSIVE blank_operator(_, _)
blank_operator(name, t) ==
  LET b == Find(t, name, 0)
  IN  IF b = npos THEN t
      ELSE blank_operator(name, Replace(t, b, Len(name), Fill(Len(name), BLANK)))

RECURSIVE blank_operators(_, _, _)
blank_operators(ops, k, t) ==
  IF k > Len(ops) THEN t
  ELSE blank_operators(ops, k + 1, blank_operator(ops[k].name, t))

\* replace function names with blanks
RECURSIVE blank_functions(_, _)
blank_functions(ops, t) ==
  LET blank(first, size) ==
        blank_functions(ops, Replace(t, first, size, Fill(size, BLANK)))
      found(r) ==
        IF r.first = Len(t) THEN t
        ELSE blank(r.first, FindCh(t, OPENPAR, r.first) - r.first)
  IN  found(search_function(ops, t, 0, Len(t)))

\* replace variables and constants with blanks
RECURSIVE blank_names(_, _)
blank_names(ops, t) ==
  LET found(r) ==
        IF r.first = Len(t) THEN t
        ELSE blank_names(ops,
               Replace(t, r.first, r.second - r.first + 1,
                       Fill(r.second - r.first + 1, BLANK)))
  IN  found(search_name(ops, t, 0, Len(t)))

\* replace parentheses and the argument separator with blanks
blank_separators(t) ==
  [i \in 1..Len(t) |->
     IF t[i] \in {OPENPAR, CLOSEPAR, ARGS_SEPARATOR} THEN BLANK ELSE t[i]]

\* validate with a fault: what is left of the text after the blanking is not
\* looked at
validate_without_rest(ops, expr) ==
  LET checked(par, num) ==
        IF par # "none" THEN par
        ELSE IF num.err # "none" THEN num.err
        ELSE "none"
  IN  checked(check_parentheses(expr, 0), blank_numbers(ops, expr))

\* the exception validate() raises on expr, or "none"
validate(ops, expr) ==
  LET \* what is left once operators, functions, names and separators are
      \* blanked too
      rest(t) ==
        blank_separators(
          blank_names(ops, blank_functions(ops, blank_operators(ops, 1, t))))
      all_blank(t) == \A i \in 1..Len(t) : t[i] = BLANK
      checked(par, num) ==
        IF par # "none" THEN par
        ELSE IF num.err # "none" THEN num.err
        ELSE IF ~all_blank(rest(num.str)) THEN "UnknownSymbol"
        ELSE "none"
  IN  checked(check_parentheses(expr, 0), blank_numbers(ops, expr))

\* ---------------------------------------------------------------------------
\* math_parser::wrap and math_parser::remove_blanks
\* ---------------------------------------------------------------------------

\* "x" --> "(x)"; the result is the new text and the offset after the ")"
add_parentheses(s, r) ==
  IF r.first = Len(s) \/ r.second = Len(s)
    THEN [str |-> s, it |-> Len(s)]
    ELSE LET ret_end == r.second = Len(s) - 1
             op_expr == <<OPENPAR>> \o Range(s, r.first, r.second + 1)
                          \o <<CLOSEPAR>>
             offset  == r.first + Len(op_expr)
             t       == Replace(s, r.first, r.second - r.first + 1, op_expr)
         IN  [str |-> t, it |-> IF ret_end THEN Len(t) ELSE offset]

\* a range already delimited by "(" ")" , "(" "," or "," ")" is left alone
Delimited(s, r) ==
  \/ At(s, r.first - 1) = OPENPAR /\ At(s, r.second + 1) = CLOSEPAR
  \/ At(s, r.first - 1) = OPENPAR /\ At(s, r.second + 1) = ARGS_SEPARATOR
  \/ At(s, r.first - 1) = ARGS_SEPARATOR /\ At(s, r.second + 1) = CLOSEPAR

RECURSIVE wrap_numbers(_, _, _)
wrap_numbers(ops, s, r) ==
  IF r.err # "none" THEN [err |-> r.err, str |-> s]
  ELSE IF r.second = Len(s) THEN [err |-> "none", str |-> s]
  ELSE IF r.first = 0 \/ r.second = Len(s) - 1 \/ ~Delimited(s, r)
    THEN LET again(a) ==
               wrap_numbers(ops, a.str,
                            search_number(ops, a.str, a.it, Len(a.str), 0))
         IN  again(add_parentheses(s, r))
    ELSE wrap_numbers(ops, s, search_number(ops, s, r.second + 1, Len(s), 0))

RECURSIVE wrap_names(_, _, _)
wrap_names(ops, s, r) ==
  IF r.second = Len(s) THEN s
  ELSE IF r.first = 0 \/ r.second = Len(s) - 1
    THEN LET from_begin(a) ==
               wrap_names(ops, a.str, search_name(ops, a.str, 0, Len(a.str)))
         IN  from_begin(add_parentheses(s, r))
  ELSE IF Delimited(s, r)
    THEN wrap_names(ops, s, search_name(ops, s, r.second + 1, Len(s)))
  ELSE LET again(a) ==
             wrap_names(ops, a.str, search_name(ops, a.str, a.it, Len(a.str)))
       IN  again(add_parentheses(s, r))

RECURSIVE wrap_functions(_, _, _)
wrap_functions(ops, s, r) ==
  IF r.second = Len(s) THEN s
  ELSE IF r.first = 0 \/ r.second = Len(s) - 1 \/ ~Delimited(s, r)
    THEN LET from_begin(a) ==
               wrap_functions(ops, a.str,
                              search_function(ops, a.str, 0, Len(a.str)))
         IN  from_begin(add_parentheses(s, r))
    ELSE wrap_functions(ops, s,
           search_function(ops, s, FindCh(s, OPENPAR, r.first), Len(s)))

\* numbers, then names, then function calls are wrapped in parentheses
wrap(ops, expr) ==
  LET functions(v) ==
        wrap_functions(ops, v, search_function(ops, v, 0, Len(v)))
      names(n) ==
        wrap_names(ops, n, search_name(ops, n, 0, Len(n)))
      numbers(n) ==
        IF n.err # "none" THEN n
        ELSE [err |-> "none", str |-> functions(names(n.str))]
  IN  numbers(wrap_numbers(ops, expr, search_number(ops, expr, 0, Len(expr), 0)))

remove_blanks(expr) == SelectSeq(expr, LAMBDA ch : ch # BLANK)

\* ---------------------------------------------------------------------------
\* math_parser::postfix_operators
\* ---------------------------------------------------------------------------
DigitChars == <<"0", "1", "2", "3", "4", "5", "6", "7", "8", "9">>

DigitValue(ch) == CHOOSE d \in 0..9 : DigitChars[d + 1] = ch

\* os << n for a non negative integer
RECURSIVE int_to_str(_)
int_to_str(n) ==
  IF n < 10 THEN <<DigitChars[n + 1]>>
  ELSE int_to_str(n \div 10) \o <<DigitChars[(n % 10) + 1]>>

\* the integers an istringstream reads from a text of digits and blanks (the
\* text between '[' and ']' is always written by the parser itself)
RECURSIVE read_ints(_, _, _)
read_ints(t, k, cur) ==
  IF k > Len(t) THEN (IF cur >= 0 THEN <<cur>> ELSE <<>>)
  ELSE IF IsDigit(t[k])
    THEN read_ints(t, k + 1, (IF cur < 0 THEN 0 ELSE cur * 10) + DigitValue(t[k]))
    ELSE (IF cur >= 0 THEN <<cur>> ELSE <<>>) \o read_ints(t, k + 1, -1)

\* int i = -1; while( is ) is >> i; return i;
last_int(t) ==
  LET v == read_ints(t, 1, -1) IN IF v = <<>> THEN -1 ELSE v[Len(v)]

\* while( s[ e ] == CLOSE_PAR ) --e;
RECURSIVE skip_closing(_, _)
skip_closing(s, e) ==
  IF e >= 0 /\ At(s, e) = CLOSEPAR THEN skip_closing(s, e - 1) ELSE e

\* number of values left by the operand ending at offset e, read from the
\* annotation of its last operator or function; -1 when it has none
get_out_values(s, e) ==
  LET k == skip_closing(s, e)
  IN  IF k < 0 \/ At(s, k) # CLOSE_ARG_PAR THEN -1
      ELSE LET c == RFindCh(s, OPEN_ARG_PAR, k)
           IN  IF c = npos THEN -1
               ELSE last_int(Range(s, c + 1, k))

\* mm::count_if( s.begin() + b, s.begin() + e, argument( ... ) ): separators
\* met while the parenthesis counter _p is zero
RECURSIVE count_arguments(_, _, _, _)
count_arguments(s, b, e, p) ==
  IF b >= e THEN 0
  ELSE IF At(s, b) = OPENPAR THEN count_arguments(s, b + 1, e, p + 1)
  ELSE IF At(s, b) = CLOSEPAR THEN count_arguments(s, b + 1, e, p - 1)
  ELSE (IF At(s, b) = ARGS_SEPARATOR /\ p = 0 THEN 1 ELSE 0)
         + count_arguments(s, b + 1, e, p)

\* dimension of the operand in s[ first .. second ]
operand_args(s, first, second) ==
  LET a == get_out_values(s, second)
  IN  IF a < 0 THEN count_arguments(s, first + 1, second, 0) + 1 ELSE a

\* index of the first descriptor with this name and these dimensions and a
\* non negative number of returned values; 0 when there is none
find_outvals(ops, name, largs, rargs) ==
  LET hits == {k \in 1..Len(ops) : /\ ops[k].name = name
                                   /\ ops[k].largs = largs
                                   /\ ops[k].rargs = rargs
                                   /\ ops[k].outvals >= 0}
  IN  IF hits = {} THEN 0 ELSE CHOOSE k \in hits : \A j \in hits : k <= j

\* "+[ 1 1 1 ]"
annotated_operator(name, largs, rargs, ret_values) ==
  name \o <<OPEN_ARG_PAR, " ">> \o int_to_str(largs) \o <<" ">>
       \o int_to_str(rargs) \o <<" ">> \o int_to_str(ret_values)
       \o <<" ", CLOSE_ARG_PAR>>

\* the while loop of postfix_operators for the descriptor ops[ k ], entered
\* with op.first = first; "(x)+(y)" --> "((x),(y) +[ 1 1 1 ])".
\* err is "OperatorNotFound" for the exception thrown when no descriptor has
\* the dimensions of the operands, and "undefined" when get_out_values is
\* called with npos (a right operand without closing parenthesis)
RECURSIVE postfix_operator(_, _, _, _, _)
postfix_operator(ops, k, s, first, count_args) ==
  LET name   == ops[k].name
      second == first + Len(name) - 1
      start  == second + 1
  IN
  IF first = npos \/ second = Len(s) - 1 THEN [err |-> "none", str |-> s]
  ELSE IF At(s, second + 1) \in {CLOSEPAR, OPEN_ARG_PAR}
    THEN postfix_operator(ops, k, s, Find(s, name, start), count_args)
  ELSE
    LET lfirst  == IF first # 0 /\ At(s, first - 1) = CLOSEPAR
                     THEN backward_parenthesis_match(s, first - 1) ELSE npos
        lsecond == first - 1
        isright == At(s, second + 1) = OPENPAR
        rfirst  == IF isright THEN second + 1 ELSE npos
        rsecond == IF isright THEN forward_parenthesis_match_pos(s, second + 1)
                   ELSE npos
        has_left_operand  == lfirst # npos
        has_right_operand == rfirst # npos
        args_num == (IF has_left_operand THEN 1 ELSE 0)
                      + (IF has_right_operand THEN 1 ELSE 0)
    IN
    IF ops[k].operands # args_num
      THEN postfix_operator(ops, k, s, Find(s, name, start), count_args)
    ELSE IF count_args /\ has_right_operand /\ rsecond = npos
      THEN [err |-> "undefined", str |-> s]
    ELSE
      LET span_first  == IF has_left_operand THEN lfirst ELSE first
          \* an npos right end makes replace and substr run to the end
          span_second == IF has_right_operand
                           THEN (IF rsecond = npos THEN Len(s) ELSE rsecond)
                           ELSE second
          left_operand_str  == IF has_left_operand
                                 THEN Substr(s, lfirst, lsecond - lfirst + 1)
                                 ELSE <<>>
          right_operand_str == IF has_right_operand
                                 THEN Substr(s, rfirst, span_second - rfirst + 1)
                                 ELSE <<>>
          op_expr(op_str) ==
            (IF ops[k].swap
               THEN right_operand_str \o <<ARGS_SEPARATOR>>
                      \o left_operand_str \o <<" ">> \o op_str
               ELSE <<OPENPAR>> \o left_operand_str
                      \o <<ARGS_SEPARATOR>> \o right_operand_str
                      \o <<" ">> \o op_str)
              \o <<CLOSEPAR>>
          next(t) == postfix_operator(ops, k, t, Find(t, name, start), count_args)
          \* oi: the descriptor that gives the number of returned values
          splice(largs, rargs, oi) ==
            IF count_args /\ oi = 0
              THEN [err |-> "OperatorNotFound", str |-> s]
              ELSE next(Replace(s, span_first, span_second - span_first + 1,
                          op_expr(IF count_args
                                    THEN annotated_operator(name, largs, rargs,
                                                            ops[oi].outvals)
                                    ELSE name)))
          dimensions(largs, rargs) ==
            splice(largs, rargs, find_outvals(ops, name, largs, rargs))
      IN  dimensions(
            IF has_left_operand THEN operand_args(s, lfirst, lsecond) ELSE 0,
            IF has_right_operand THEN operand_args(s, rfirst, rsecond) ELSE 0)

\* for( ; op_it != operators_.end(); ++op_it ): one pass per descriptor, in
\* the order of the table
RECURSIVE postfix_operators_from(_, _, _, _)
postfix_operators_from(ops, k, s, count_args) ==
  IF k > Len(ops) THEN [err |-> "none", str |-> s]
  ELSE LET next(r) ==
             IF r.err # "none" THEN r
             ELSE postfix_operators_from(ops, k + 1, r.str, count_args)
       IN  next(postfix_operator(ops, k, s, Find(s, ops[k].name, 0), count_args))

postfix_operators(ops, s, count_args) ==
  postfix_operators_from(ops, 1, s, count_args)

\* ---------------------------------------------------------------------------
\* math_parser::postfix_functions and math_parser::to_rpn
\* (the console program builds its parser with swap_args = false)
\* ---------------------------------------------------------------------------
\* "sin(x)" --> "(x)sin[1]"
RECURSIVE postfix_functions_from(_, _, _, _)
postfix_functions_from(ops, s, r, count_args) ==
  IF r.second = Len(s) THEN s
  ELSE LET args(open_par) ==
             IF r.second - open_par > 1
               THEN operand_args(s, open_par, r.second) ELSE 0
           fun(open_par) ==
             Substr(s, open_par, r.second - open_par + 1)
               \o Substr(s, r.first, open_par - r.first)
               \o (IF count_args
                     THEN <<OPEN_ARG_PAR>> \o int_to_str(args(open_par))
                            \o <<CLOSE_ARG_PAR>>
                     ELSE <<>>)
           next(t) ==
             postfix_functions_from(ops, t, search_function(ops, t, 0, Len(t)),
                                    count_args)
       IN  next(Replace(s, r.first, r.second - r.first + 1,
                        fun(FindCh(s, OPENPAR, r.first))))

postfix_functions(ops, s, count_args) ==
  postfix_functions_from(ops, s, search_function(ops, s, 0, Len(s)), count_args)

\* mm::replace_if( ..., to_remove( OPENPAR, CLOSEPAR, ARGS_SEPARATOR ),
\*                 RPN_SEPARATOR )
replace_separators(s) ==
  [i \in 1..Len(s) |->
     IF s[i] \in {OPENPAR, CLOSEPAR, ARGS_SEPARATOR} THEN RPN_SEPARATOR ELSE s[i]]

\* unique( ..., equals( RPN_SEPARATOR ) ): runs of separators become one
RECURSIVE unique(_)
unique(s) ==
  IF Len(s) < 2 THEN s
  ELSE IF s[1] = RPN_SEPARATOR /\ s[2] = RPN_SEPARATOR THEN unique(Tail(s))
  ELSE <<s[1]>> \o unique(Tail(s))

to_rpn(ops, s, count_args) ==
  LET functions(o) ==
        IF o.err # "none" THEN o
        ELSE [err |-> "none",
              str |-> unique(replace_separators(
                               postfix_functions(ops, o.str, count_args)))]
  IN  functions(postfix_operators(ops, s, count_args))

\* ---------------------------------------------------------------------------
\* Tokens; math_parser::create_tokens, create_token and parse
\* ---------------------------------------------------------------------------
token(s) == [type |-> "UNKNOWN", str |-> s]

value_token(s) == [type |-> "VALUE", str |-> s]

name_token(s) == [type |-> "NAME", str |-> s]

function_token(s, a, o) ==
  [type |-> "FUNCTION", str |-> s, args |-> a, outvalues |-> o]

\* operator_token with a fault: the left and right dimensions change places
operator_token_swapped(s, l, r, o) ==
  [type |-> "OPERATOR", str |-> s, largs |-> r, rargs |-> l, outvalues |-> o]

operator_token(s, l, r, o) ==
  [type |-> "OPERATOR", str |-> s, largs |-> l, rargs |-> r, outvalues |-> o]

\* the handle 0 create_token returns for an annotation that holds neither
\* one, two nor three integers
null_token == [type |-> "NULL"]

\* err is "InvalidName" when search_number throws
create_token(ops, s, count_args) ==
  LET i == Find(s, <<OPEN_ARG_PAR>>, 0)
      c == Find(s, <<CLOSE_ARG_PAR>>, i)
      name == Substr(s, 0, i)
      ok(t) == [err |-> "none", tok |-> t]
      annotated(values) ==
        IF Len(values) = 1 THEN ok(function_token(name, values[1], -1))
        ELSE IF Len(values) = 2
          THEN ok(function_token(name, values[1], values[2]))
        ELSE IF Len(values) = 3
          THEN ok(operator_token(name, values[1], values[2], values[3]))
        ELSE ok(null_token)
      plain(n, v) ==
        IF n.err # "none" THEN [err |-> n.err, tok |-> null_token]
        ELSE IF n.first # Len(s) THEN ok(value_token(s))
        ELSE IF v.first # Len(s) THEN ok(name_token(s))
        ELSE ok(token(s))
  IN  IF count_args /\ i # npos
        THEN IF c = npos THEN ok(token(s))
             ELSE annotated(read_ints(Range(s, i + 1, c), 1, -1))
      ELSE IF ~count_args /\ findop(ops, s)
        THEN ok(operator_token(s, -1, -1, -1))
      ELSE plain(search_number(ops, s, 0, Len(s), 0),
                 search_name(ops, s, 0, Len(s)))

\* is >> s : the words of the text, each with the stream's good() after it
\* has been read (false when the word ends the text)
RECURSIVE words(_, _)
words(s, i) ==
  LET b == CHOOSE k \in i..Len(s) + 1 :
             /\ k = Len(s) + 1 \/ ~IsSpace(s[k])
             /\ \A j \in i..k - 1 : IsSpace(s[j])
      e == CHOOSE k \in b..Len(s) + 1 :
             /\ k = Len(s) + 1 \/ IsSpace(s[k])
             /\ \A j \in b..k - 1 : ~IsSpace(s[j])
  IN  IF b > Len(s) THEN <<>>
      ELSE <<[str |-> SubSeq(s, b, e - 1), good |-> e <= Len(s)]>> \o words(s, e)

\* the words read after "+[" up to the one ending in ']'; a word is kept
\* only if the stream is still good after it
RECURSIVE annotation_words(_, _)
annotation_words(w, j) ==
  IF j > Len(w) THEN [str |-> <<>>, next |-> j]
  ELSE LET s2   == w[j].str
           rest == IF s2[Len(s2)] = CLOSE_ARG_PAR \/ ~w[j].good
                     THEN [str |-> <<>>, next |-> j + 1]
                     ELSE annotation_words(w, j + 1)
       IN  [str |-> (IF w[j].good THEN <<BLANK>> \o s2 ELSE <<>>) \o rest.str,
            next |-> rest.next]

RECURSIVE create_tokens_from(_, _, _, _)
create_tokens_from(ops, w, j, count_args) ==
  IF j > Len(w) THEN [err |-> "none", tokens |-> <<>>]
  ELSE LET s    == w[j].str
           more == count_args /\ Find(s, <<OPEN_ARG_PAR>>, 0) # npos
                     /\ s[Len(s)] # CLOSE_ARG_PAR
           push(t, rest) ==
             IF t.err # "none" THEN [err |-> t.err, tokens |-> <<>>]
             ELSE IF rest.err # "none" THEN rest
             ELSE [err |-> "none",
                   tokens |-> (IF t.tok.type = "NULL" THEN <<>> ELSE <<t.tok>>)
                                \o rest.tokens]
           read(a) ==
             push(create_token(ops, s \o a.str, count_args),
                  create_tokens_from(ops, w, a.next, count_args))
       IN  read(IF more THEN annotation_words(w, j + 1)
                ELSE [str |-> <<>>, next |-> j + 1])

create_tokens(ops, rpn, count_args) ==
  create_tokens_from(ops, words(rpn, 1), 1, count_args)

\* validate, wrap, remove_blanks, to_rpn, create_tokens; expr is the working
\* text expr_ when parse returns or throws
parse_fail(e, x) == [err |-> e, tokens |-> <<>>, expr |-> x]

\* return create_tokens( expr_ )
parse_tokens(r, t) ==
  IF t.err # "none" THEN parse_fail(t.err, r.str)
  ELSE [err |-> "none", tokens |-> t.tokens, expr |-> r.str]

\* to_rpn( expr_ ) has returned or thrown r
parse_rpn(ops, r, count_args) ==
  IF r.err # "none" THEN parse_fail(r.err, r.str)
  ELSE parse_tokens(r, create_tokens(ops, r.str, count_args))

\* wrap( expr_ ) has returned or thrown w
parse_wrapped(ops, w, count_args) ==
  IF w.err # "none" THEN parse_fail(w.err, w.str)
  ELSE parse_rpn(ops, to_rpn(ops, remove_blanks(w.str), count_args), count_args)

\* validate( expr ) has returned or thrown v
parse_validated(ops, expr, count_args, v) ==
  IF v # "none" THEN parse_fail(v, expr)
  ELSE parse_wrapped(ops, wrap(ops, expr), count_args)

parse(ops, expr, count_args) ==
  parse_validated(ops, expr, count_args, validate(ops, expr))

\* ---------------------------------------------------------------------------
\* Values. A double is modelled exactly as a reduced fraction num/den when it
\* is one, and as the term fn(args) otherwise (a result of <cmath>, a
\* division by zero, a constant of the default table)
\* ---------------------------------------------------------------------------
Abs(n) == IF n < 0 THEN -n ELSE n

RECURSIVE GCD(_, _)
GCD(a, b) == IF b = 0 THEN a ELSE GCD(b, a % b)

Rat(n, d) ==
  LET g == GCD(Abs(n), Abs(d))
      s == IF d < 0 THEN -1 ELSE 1
  IN  [num |-> s * (n \div g), den |-> s * (d \div g), fn |-> "", args |-> <<>>]

Term(f, a) == [num |-> 0, den |-> 0, fn |-> f, args |-> a]

IsRat(v) == v.den # 0

RECURSIVE Pow10(_)
Pow10(n) == IF n = 0 THEN 1 ELSE 10 * Pow10(n - 1)

\* T() for T = double
zero == Rat(0, 1)

\* the functions of the default tables
neg(v) == IF IsRat(v) THEN Rat(-v.num, v.den) ELSE Term("neg", <<v>>)

inv(v) ==
  IF IsRat(v) /\ v.num # 0 THEN Rat(v.den, v.num) ELSE Term("inv", <<v>>)

add(v1, v2) ==
  IF IsRat(v1) /\ IsRat(v2)
    THEN Rat(v1.num * v2.den + v2.num * v1.den, v1.den * v2.den)
    ELSE Term("add", <<v1, v2>>)

sub(v1, v2) ==
  IF IsRat(v1) /\ IsRat(v2)
    THEN Rat(v1.num * v2.den - v2.num * v1.den, v1.den * v2.den)
    ELSE Term("sub", <<v1, v2>>)

mul(v1, v2) ==
  IF IsRat(v1) /\ IsRat(v2)
    THEN Rat(v1.num * v2.num, v1.den * v2.den)
    ELSE Term("mul", <<v1, v2>>)

div(v1, v2) ==
  IF IsRat(v1) /\ IsRat(v2) /\ v2.num # 0
    THEN Rat(v1.num * v2.den, v1.den * v2.num)
    ELSE Term("div", <<v1, v2>>)

\* f( v ) for the entry named f of the table unary_functions
unary_f(f, v) ==
  IF f = "neg" THEN neg(v)
  ELSE IF f = "inv" THEN inv(v)
  ELSE Term(f, <<v>>)

\* f( v1, v2 ) for the entry named f of the table binary_functions
binary_f(f, v1, v2) ==
  IF f = "add" THEN add(v1, v2)
  ELSE IF f = "sub" THEN sub(v1, v2)
  ELSE IF f = "mul" THEN mul(v1, v2)
  ELSE IF f = "div" THEN div(v1, v2)
  ELSE Term(f, <<v1, v2>>)

\* a literal m * 10^k is modelled exactly when its digits and its exponent
\* take at most MaxDigits decimal places together
MaxDigits == 8

\* std::atof: the longest prefix [sign] digits [. digits] [E [sign] digits]
RECURSIVE digits_end(_, _)
digits_end(s, i) ==
  IF i < Len(s) /\ IsDigit(At(s, i)) THEN digits_end(s, i + 1) ELSE i

RECURSIVE digits_val(_, _, _)
digits_val(s, b, e) ==
  IF b >= e THEN 0 ELSE digits_val(s, b, e - 1) * 10 + DigitValue(At(s, e - 1))

atof(s) ==
  LET signed(i) == i < Len(s) /\ At(s, i) \in {PLUS, MINUS}
      i0   == IF signed(0) THEN 1 ELSE 0
      i1   == digits_end(s, i0)
      dot  == i1 < Len(s) /\ At(s, i1) = DOT
      i2   == IF dot THEN digits_end(s, i1 + 1) ELSE i1
      frac == IF dot THEN i2 - i1 - 1 ELSE 0
      mant == digits_val(s, i0, i1) * Pow10(frac)
                + (IF dot THEN digits_val(s, i1 + 1, i2) ELSE 0)
      j0   == i2 + 1
      j1   == IF signed(j0) THEN j0 + 1 ELSE j0
      j2   == digits_end(s, j1)
      ex   == IF i2 < Len(s) /\ IsE(At(s, i2)) /\ j2 > j1
                THEN (IF signed(j0) /\ At(s, j0) = MINUS THEN -1 ELSE 1)
                       * digits_val(s, j1, j2)
                ELSE 0
      m    == IF signed(0) /\ At(s, 0) = MINUS THEN -mant ELSE mant
  IN  IF (i1 - i0) + frac = 0 THEN zero
      ELSE IF (i1 - i0) + frac + Abs(ex - frac) > MaxDigits
        THEN Term("atof", <<Rat(m, 1), Rat(ex - frac, 1)>>)
      ELSE IF ex >= frac THEN Rat(m * Pow10(ex - frac), 1)
      ELSE Rat(m, Pow10(frac - ex))

\* ---------------------------------------------------------------------------
\* The default run-time environment
\* ---------------------------------------------------------------------------
\* function_i( n, in, out, lin ); kind names the class of the function object,
\* f the wrapped function of <cmath> or of def_rte.h, dim the N of the vector
\* templates
function_i(n, in, out, lin, k, fname, d) ==
  [name |-> n, values_in |-> in, values_out |-> out, lvalues_in |-> lin,
   rvalues_in |-> in - lin, kind |-> k, f |-> fname, dim |-> d]

\* { name, f, left_params }
unary_functions ==
  << [name |-> <<"a", "b", "s">>, f |-> "fabs", left_params |-> 0],
     [name |-> <<"a", "c", "o", "s">>, f |-> "acos", left_params |-> 0],
     [name |-> <<"a", "s", "i", "n">>, f |-> "asin", left_params |-> 0],
     [name |-> <<"a", "t", "a", "n">>, f |-> "atan", left_params |-> 0],
     [name |-> <<"c", "e", "i", "l">>, f |-> "ceil", left_params |-> 0],
     [name |-> <<"c", "o", "s">>, f |-> "cos", left_params |-> 0],
     [name |-> <<"c", "o", "s", "h">>, f |-> "cosh", left_params |-> 0],
     [name |-> <<"e", "x", "p">>, f |-> "exp", left_params |-> 0],
     [name |-> <<"f", "l", "o", "o", "r">>, f |-> "floor", left_params |-> 0],
     [name |-> <<"l", "o", "g">>, f |-> "log", left_params |-> 0],
     [name |-> <<"l", "o", "g", "1", "0">>, f |-> "log10", left_params |-> 0],
     [name |-> <<"s", "i", "n">>, f |-> "sin", left_params |-> 0],
     [name |-> <<"s", "i", "n", "h">>, f |-> "sinh", left_params |-> 0],
     [name |-> <<"s", "q", "r", "t">>, f |-> "sqrt", left_params |-> 0],
     [name |-> <<"t", "a", "n">>, f |-> "tan", left_params |-> 0],
     [name |-> <<"i", "n", "v">>, f |-> "inv", left_params |-> 0],
     [name |-> <<"-">>, f |-> "neg", left_params |-> 1] >>

binary_functions ==
  << [name |-> <<"^">>, f |-> "pow", left_params |-> 1],
     [name |-> <<"*">>, f |-> "mul", left_params |-> 1],
     [name |-> <<"/">>, f |-> "div", left_params |-> 1],
     [name |-> <<"+">>, f |-> "add", left_params |-> 1],
     [name |-> <<"-">>, f |-> "sub", left_params |-> 1],
     [name |-> <<"%">>, f |-> "fmod", left_params |-> 1],
     [name |-> <<"a", "d", "d">>, f |-> "add", left_params |-> 0],
     [name |-> <<"s", "u", "b">>, f |-> "sub", left_params |-> 0],
     [name |-> <<"d", "i", "v">>, f |-> "div", left_params |-> 0],
     [name |-> <<"m", "u", "l">>, f |-> "mul", left_params |-> 0],
     [name |-> <<"p", "o", "w">>, f |-> "pow", left_params |-> 0],
     [name |-> <<"a", "t", "a", "n", "2">>, f |-> "atan2", left_params |-> 0] >>

constants ==
  << [name |-> <<"e">>, val |-> Term("2.71828182845904523536", <<>>)],
     [name |-> <<"l", "o", "g", "2", "e">>,
      val |-> Term("1.44269504088896340736", <<>>)],
     [name |-> <<"P", "i">>, val |-> Term("3.14159265358979323846", <<>>)] >>

variables ==
  << [name |-> <<"x">>, val |-> zero], [name |-> <<"y">>, val |-> zero],
     [name |-> <<"z">>, val |-> zero], [name |-> <<"w">>, val |-> zero] >>

generate_unary_functions(functions) ==
  [j \in 1..Len(functions) |->
     function_i(functions[j].name, 1, 1, functions[j].left_params,
                "unary_function", functions[j].f, 1)]

generate_binary_functions(functions) ==
  [j \in 1..Len(functions) |->
     function_i(functions[j].name, 2, 1, functions[j].left_params,
                "binary_function", functions[j].f, 1)]

scalar_assign == function_i(<<"=">>, 2, 1, 1, "scalar_assign", "", 1)

vector_assign(N) == function_i(<<"=">>, 2 * N, N, N, "vector_assign", "", N)

dotprod3 == function_i(<<"*">>, 6, 1, 3, "dotprod3", "", 3)

crossprod3 ==
  function_i(<<"c", "r", "o", "s", "s", "3">>, 6, 3, 0, "crossprod3", "", 3)

\* the adaptor takes name and function of the binary function it lifts
vector_op_apply(fp, N) ==
  function_i(fp.name, 2 * N, N, N, "vector_op_apply", fp.f, N)

generate_def_functions ==
  generate_unary_functions(unary_functions)
    \o generate_binary_functions(binary_functions)
    \o << vector_assign(4), vector_assign(3), vector_assign(2), crossprod3,
          dotprod3 >>
    \o [i \in 1..Len(SelectSeq(binary_functions, LAMBDA b : b.left_params = 1))
          |-> vector_op_apply(
                SelectSeq(binary_functions, LAMBDA b : b.left_params = 1)[i], 3)]
    \o << scalar_assign >>

generate_def_constants == constants

generate_def_variables == variables

\* rte::function_p( s, rargs, largs ): index in the table of the first
\* function matching, 0 for the null handle
function_p(tab, s, rargs, largs) ==
  LET hits == {i \in 1..Len(tab) :
                 /\ tab[i].name = s
                 /\ rargs >= 0 => /\ tab[i].rvalues_in = rargs
                                  /\ tab[i].lvalues_in = largs}
  IN  IF hits = {} THEN 0 ELSE CHOOSE i \in hits : \A j \in hits : i <= j

\* variable_p with a fault: only the first cell of the table is looked at
variable_p_first_cell_only(tab, name) ==
  IF tab # <<>> /\ tab[1].name = name THEN 1 ELSE 0

\* rte::variable_p: index of the first cell with the name, 0 for the null
\* handle
variable_p(tab, name) ==
  LET hits == {i \in 1..Len(tab) : tab[i].name = name}
  IN  IF hits = {} THEN 0 ELSE CHOOSE i \in hits : \A j \in hits : i <= j

\* constant_p with a fault: no constant is ever found
constant_p_finding_none(tab, name) == 0

\* rte::constant_p
constant_p(tab, name) ==
  LET hits == {i \in 1..Len(tab) : tab[i].name = name}
  IN  IF hits = {} THEN 0 ELSE CHOOSE i \in hits : \A j \in hits : i <= j

\* ---------------------------------------------------------------------------
\* Instructions and the compiler
\* ---------------------------------------------------------------------------
\* load_val holds a value, load_var the handle of a cell (its index in the
\* variable table, where cells are only ever appended), call_fun the handle
\* of a function object (its index in the function table)
load_val(v) == [op |-> "load_val", val |-> v, cell |-> 0, fun |-> 0]

load_var(c) == [op |-> "load_var", val |-> zero, cell |-> c, fun |-> 0]

call_fun(f) == [op |-> "call_fun", val |-> zero, cell |-> 0, fun |-> f]

no_instruction == [op |-> "none", val |-> zero, cell |-> 0, fun |-> 0]

\* compiler::compile( token, rte ): the instruction, the variable table (a
\* cell may have been created) and err = "NullToken" or "UnknownToken" when
\* the call throws
compile_token(t, rt, count_args, create_variables) ==
  LET ok(i)   == [err |-> "none", inst |-> i, var_tab |-> rt.var_tab]
      unknown == [err |-> "UnknownToken", inst |-> no_instruction,
                  var_tab |-> rt.var_tab]
  IN
  IF t.type = "NULL"
    THEN [err |-> "NullToken", inst |-> no_instruction, var_tab |-> rt.var_tab]
  ELSE IF t.type = "UNKNOWN" THEN unknown
  ELSE IF t.type = "VALUE" THEN ok(load_val(atof(t.str)))
  ELSE IF t.type = "FUNCTION"
    THEN LET f == function_p(rt.fun_tab, t.str,
                             IF count_args THEN t.args ELSE -1, 0)
         IN  IF f # 0 THEN ok(call_fun(f)) ELSE unknown
  ELSE IF t.type = "OPERATOR"
    THEN LET f == function_p(rt.fun_tab, t.str, t.rargs, t.largs)
         IN  IF f # 0 THEN ok(call_fun(f)) ELSE unknown
  ELSE \* NAME
    LET f == function_p(rt.fun_tab, t.str, -1, 0)
        v == variable_p(rt.var_tab, t.str)
        c == constant_p(rt.const_tab, t.str)
    IN  IF ~count_args /\ f # 0 THEN ok(call_fun(f))
        ELSE IF v # 0 THEN ok(load_var(v))
        ELSE IF c # 0 THEN ok(load_val(rt.const_tab[c].val))
        ELSE IF create_variables
          THEN [err |-> "none", inst |-> load_var(Len(rt.var_tab) + 1),
                var_tab |-> Append(rt.var_tab, [name |-> t.str, val |-> zero])]
        ELSE unknown

\* compiler::compile( tokens, rte ): the tokens are compiled in order, each
\* instruction is pushed at the back of the program; a throw leaves the
\* variable table as the tokens compiled so far have made it
\* compile_from with a fault: an instruction equal to the one pushed last is
\* not pushed again, so two tokens are merged into one instruction
RECURSIVE compile_from_merging(_, _, _, _, _, _)
compile_from_merging(tokens, i, program, rt, count_args, create_variables) ==
  IF i > Len(tokens)
    THEN [err |-> "none", program |-> program, var_tab |-> rt.var_tab]
    ELSE LET c == compile_token(tokens[i], rt, count_args, create_variables)
         IN  IF c.err # "none"
               THEN [err |-> c.err, program |-> <<>>, var_tab |-> c.var_tab]
               ELSE compile_from_merging(tokens, i + 1,
                      IF program # <<>> /\ program[Len(program)] = c.inst
                        THEN program ELSE Append(program, c.inst),
                      [rt EXCEPT !.var_tab = c.var_tab],
                      count_args, create_variables)

RECURSIVE compile_from(_, _, _, _, _, _)
compile_from(tokens, i, program, rt, count_args, create_variables) ==
  IF i > Len(tokens)
    THEN [err |-> "none", program |-> program, var_tab |-> rt.var_tab]
    ELSE LET c == compile_token(tokens[i], rt, count_args, create_variables)
         IN  IF c.err # "none"
               THEN [err |-> c.err, program |-> <<>>, var_tab |-> c.var_tab]
               ELSE compile_from(tokens, i + 1, Append(program, c.inst),
                                 [rt EXCEPT !.var_tab = c.var_tab],
                                 count_args, create_variables)

\* compile with a fault: null handles are skipped instead of refused
compile_skipping_null(tokens, rt, count_args, create_variables) ==
  compile_from(SelectSeq(tokens, LAMBDA t : t.type # "NULL"), 1, <<>>, rt,
               count_args, create_variables)

compile(tokens, rt, count_args, create_variables) ==
  compile_from(tokens, 1, <<>>, rt, count_args, create_variables)

\* ---------------------------------------------------------------------------
\* The function objects. rt is the run-time environment the object is invoked
\* on: rt.stack (top at the end), rt.var_tab, rt.prog, rt.ip. The result is
\* the stack and the variable table it leaves, err = "InvalidAssign" when it
\* throws, and ub = TRUE when it reads or pops an empty stack, reads the
\* program outside its bounds or reads a local it has not written: what the
\* program does then is not defined; stack and var_tab are then the outcome
\* in which such a read gives the value g, popping an empty stack does
\* nothing and a write through top() of an empty stack is lost
\* ---------------------------------------------------------------------------
Top(st, g) == IF st = <<>> THEN g ELSE st[Len(st)]

Pop(st) == IF st = <<>> THEN st ELSE SubSeq(st, 1, Len(st) - 1)

RECURSIVE PopN(_, _)
PopN(st, n) == IF n = 0 THEN st ELSE PopN(Pop(st), n - 1)

\* the value n places below the top (0 is the top)
Peek(st, n, g) == IF n >= Len(st) THEN g ELSE st[Len(st) - n]

effect(st, vt, e, u) == [stack |-> st, var_tab |-> vt, err |-> e, ub |-> u]

\* unary_function::operator()( rte& )
unary_function(fo, rt, g) ==
  LET st == rt.stack
  IN  effect(IF st = <<>> THEN st
             ELSE [st EXCEPT ![Len(st)] = unary_f(fo.f, st[Len(st)])],
             rt.var_tab, "none", st = <<>>)

\* binary_function::operator()( rte& )
binary_function(fo, rt, g) ==
  LET op2 == Top(rt.stack, g)
      st  == Pop(rt.stack)
  IN  effect(IF st = <<>> THEN st
             ELSE [st EXCEPT ![Len(st)] = binary_f(fo.f, st[Len(st)], op2)],
             rt.var_tab, "none", Len(rt.stack) < 2)

\* scalar_assign with a fault: the value of the variable loaded by the
\* previous instruction is not removed from the stack before the assignment
scalar_assign_without_pop(rt, g) ==
  LET st == rt.stack
  IN  IF rt.ip = 0 THEN effect(st, rt.var_tab, "none", TRUE)
      ELSE LET lv == rt.prog[rt.ip]
           IN  IF lv.op # "load_var"
                 THEN effect(st, rt.var_tab, "InvalidAssign", rt.stack = <<>>)
                 ELSE effect(st,
                             [rt.var_tab EXCEPT ![lv.cell].val = Top(st, g)],
                             "none", st = <<>>)

\* scalar_assign with a fault: the previous instruction is not checked, and
\* nothing is assigned when it is not a load_var
scalar_assign_unchecked(rt, g) ==
  LET st == Pop(rt.stack)
  IN  IF rt.ip = 0 THEN effect(st, rt.var_tab, "none", TRUE)
      ELSE LET lv == rt.prog[rt.ip]
           IN  IF lv.op # "load_var"
                 THEN effect(st, rt.var_tab, "none", rt.stack = <<>>)
                 ELSE effect(st,
                             [rt.var_tab EXCEPT ![lv.cell].val = Top(st, g)],
                             "none", st = <<>>)

\* scalar_assign::operator()( rte& )
scalar_assign_call(rt, g) ==
  LET st == Pop(rt.stack)
  IN  IF rt.ip = 0 THEN effect(st, rt.var_tab, "none", TRUE)
      ELSE LET lv == rt.prog[rt.ip]       \* prog[ rt.ip - 1 ]
           IN  IF lv.op # "load_var"
                 THEN effect(st, rt.var_tab, "InvalidAssign", rt.stack = <<>>)
                 ELSE effect(st,
                             [rt.var_tab EXCEPT ![lv.cell].val = Top(st, g)],
                             "none", st = <<>>)

\* the second loop of vector_assign::operator(), from index i on
RECURSIVE vector_assign_loop(_, _, _, _, _, _, _)
vector_assign_loop(N, i, st, vt, v, rt, g) ==
  IF i = N \/ st = <<>>
    THEN effect(st \o [k \in 1..N |-> v[N - k + 1]], vt, "none", i # N)
  ELSE IF rt.ip - i < 1 THEN effect(st, vt, "none", TRUE)
  ELSE LET lv == rt.prog[rt.ip - i]       \* prog[ rt.ip - ( 1 + i ) ]
       IN  IF lv.op # "load_var" THEN effect(st, vt, "InvalidAssign", FALSE)
           ELSE vector_assign_loop(N, i + 1, Pop(st),
                                   [vt EXCEPT ![lv.cell].val = Top(st, g)],
                                   [v EXCEPT ![i + 1] = Top(st, g)], rt, g)

\* vector_assign with a fault: the values are pushed back from v[ 0 ] up, so
\* the first value assigned ends on the bottom
vector_assign_pushing_up(N, rt, g) ==
  LET r == vector_assign_loop(N, 0, PopN(rt.stack, N), rt.var_tab,
                              [k \in 1..N |-> g], rt, g)
      n == Len(r.stack)
  IN  IF r.err # "none" \/ n < N THEN r
      ELSE [r EXCEPT !.stack = SubSeq(r.stack, 1, n - N)
                                 \o [k \in 1..N |-> r.stack[n - k + 1]]]

\* vector_assign< T, N >::operator()( rte& )
vector_assign_call(N, rt, g) ==
  vector_assign_loop(N, 0, PopN(rt.stack, N), rt.var_tab, [k \in 1..N |-> g],
                     rt, g)

\* dotprod3::operator()( rte& )
dotprod3_call(rt, g) ==
  LET st == rt.stack
      z2 == Peek(st, 0, g)  y2 == Peek(st, 1, g)  x2 == Peek(st, 2, g)
      z1 == Peek(st, 3, g)  y1 == Peek(st, 4, g)  x1 == Peek(st, 5, g)
  IN  effect(Append(PopN(st, 6),
                    add(add(mul(x1, x2), mul(y1, y2)), mul(z1, z2))),
             rt.var_tab, "none", Len(st) < 6)

\* crossprod3::operator()( rte& )
crossprod3_call(rt, g) ==
  LET st == rt.stack
      z2 == Peek(st, 0, g)  y2 == Peek(st, 1, g)  x2 == Peek(st, 2, g)
      z1 == Peek(st, 3, g)  y1 == Peek(st, 4, g)  x1 == Peek(st, 5, g)
  IN  effect(PopN(st, 6) \o << sub(mul(y1, z2), mul(y2, z1)),
                               sub(mul(x2, z1), mul(x1, z2)),
                               sub(mul(x1, y2), mul(x2, y1)) >>,
             rt.var_tab, "none", Len(st) < 6)

\* vector_op_apply with a fault: vo is pushed from vo[ 0 ] up to vo[ N - 1 ]
vector_op_apply_pushing_up(fo, rt, g) ==
  LET N  == fo.dim
      st == rt.stack
      v2 == [i \in 0..N - 1 |-> Peek(st, i, g)]
      v1 == [i \in 0..N - 1 |-> Peek(st, N + i, g)]
      vo == [i \in 0..N - 1 |->
               Top(binary_function(fo, [rt EXCEPT !.stack = <<v1[i], v2[i]>>],
                                    g).stack, g)]
  IN  effect(PopN(st, 2 * N) \o [k \in 1..N |-> vo[k - 1]],
             rt.var_tab, "none", Len(st) < 2 * N)

\* vector_op_apply< T, N >::operator()( rte& ): v2[ i ] and v1[ i ] are read
\* from the top down, vo[ i ] = f( v1[ i ], v2[ i ] ) is computed by the
\* lifted binary function on the stack, and vo is pushed from vo[ N - 1 ]
\* down to vo[ 0 ]
vector_op_apply_call(fo, rt, g) ==
  LET N  == fo.dim
      st == rt.stack
      v2 == [i \in 0..N - 1 |-> Peek(st, i, g)]
      v1 == [i \in 0..N - 1 |-> Peek(st, N + i, g)]
      vo == [i \in 0..N - 1 |->
               Top(binary_function(fo, [rt EXCEPT !.stack = <<v1[i], v2[i]>>],
                                    g).stack, g)]
  IN  effect(PopN(st, 2 * N) \o [k \in 1..N |-> vo[N - k]],
             rt.var_tab, "none", Len(st) < 2 * N)

\* ( *fun_p )( rt ): the virtual call on a function object of the table
call(fo, rt, g) ==
  IF fo.kind = "unary_function" THEN unary_function(fo, rt, g)
  ELSE IF fo.kind = "binary_function" THEN binary_function(fo, rt, g)
  ELSE IF fo.kind = "scalar_assign" THEN scalar_assign_call(rt, g)
  ELSE IF fo.kind = "vector_assign" THEN vector_assign_call(fo.dim, rt, g)
  ELSE IF fo.kind = "dotprod3" THEN dotprod3_call(rt, g)
  ELSE IF fo.kind = "crossprod3" THEN crossprod3_call(rt, g)
  ELSE vector_op_apply_call(fo, rt, g)

\* exec with a fault: load_var pushes the value its cell held when the
\* instruction was made, not the value the cell holds now
exec_loading_copies(inst, rt, g) ==
  IF inst.op = "load_val"
    THEN effect(Append(rt.stack, inst.val), rt.var_tab, "none", FALSE)
  ELSE IF inst.op = "load_var"
    THEN effect(Append(rt.stack, inst.val), rt.var_tab, "none", FALSE)
  ELSE call(rt.fun_tab[inst.fun], rt, g)

\* instruction::exec( rte& )
exec(inst, rt, g) ==
  IF inst.op = "load_val"
    THEN effect(Append(rt.stack, inst.val), rt.var_tab, "none", FALSE)
  ELSE IF inst.op = "load_var"
    THEN effect(Append(rt.stack, rt.var_tab[inst.cell].val), rt.var_tab,
                "none", FALSE)
  ELSE call(rt.fun_tab[inst.fun], rt, g)

\* ---------------------------------------------------------------------------
\* The virtual machine
\* ---------------------------------------------------------------------------
\* the run-time environment handed to instructions and function objects
rte(ft, vars, consts, prog, st, i) ==
  [fun_tab |-> ft, var_tab |-> vars, const_tab |-> consts, prog |-> prog,
   stack |-> st, ip |-> i]

\* values an indeterminate read may give
Garbage == {zero, Term("indeterminate", <<>>)}

\* the loop body with a fault: ip is incremented after the instruction is
\* fetched and before it is executed
dispatch_incrementing_first(rt, g) ==
  LET e == exec(rt.prog[rt.ip + 1], [rt EXCEPT !.ip = rt.ip + 1], g)
  IN  [rt  |-> [rt EXCEPT !.stack = e.stack, !.var_tab = e.var_tab,
                          !.ip = rt.ip + 1],
       err |-> e.err, ub |-> e.ub]

\* the body of the loop of vm::run:  prog[ rte_.ip ]->exec( rte_ ); ++rte_.ip;
\* a throw leaves ip at the throwing instruction
dispatch(rt, g) ==
  LET e == exec(rt.prog[rt.ip + 1], rt, g)
  IN  [rt  |-> [rt EXCEPT !.stack = e.stack, !.var_tab = e.var_tab,
                          !.ip = IF e.err = "none" THEN rt.ip + 1 ELSE rt.ip],
       err |-> e.err, ub |-> e.ub]

\* while( rte_.ip != end ) ... : the loop from the current ip. An ip beyond
\* the end makes prog[ rte_.ip ] a read outside the program: ub
RECURSIVE run_loop(_, _, _)
run_loop(rt, g, ub) ==
  IF rt.ip = Len(rt.prog) THEN [rt |-> rt, err |-> "none", ub |-> ub]
  ELSE IF rt.ip > Len(rt.prog) THEN [rt |-> rt, err |-> "none", ub |-> TRUE]
  ELSE LET d == dispatch(rt, g)
       IN  IF d.err # "none" THEN [rt |-> d.rt, err |-> d.err, ub |-> ub \/ d.ub]
           ELSE run_loop(d.rt, g, ub \/ d.ub)

\* vm::run( i )
run(rt, i, g) == run_loop([rt EXCEPT !.ip = i], g, FALSE)

\* ---------------------------------------------------------------------------
\* The console program (test_vm): one parser, one compiler, one run-time
\* environment and one virtual machine serve every line read
\* ---------------------------------------------------------------------------
VARIABLES
  pc,          \* where the program is: "getline", "parse", "compile", "run",
               \* "print", "exit", "aborted" (undefined behaviour ended it)
  nlines,      \* lines read so far
  expr,        \* the line read
  count_args,  \* the parser's count_args_ flag
  vt,          \* the tokens parse returned
  expr_,       \* the parser's working text: the RPN text after a parse
  program,     \* the instructions compile returned
  var_tab,     \* rt.var_tab: cells (name, val); the instructions and the
               \* machine's copy of the environment share these cells
  stack,       \* the machine's value stack, top at the end
  ip,          \* the machine's instruction pointer
  entry,       \* the argument of vm::run
  diag,        \* the diagnostic printed for the line, "" if none
  result,      \* the values printed after RESULT:, top of the stack first
  compiler,    \* the compiler's count_args_ and create_variables_ flags
  lib,         \* the programs a caller of compile has kept, oldest first
  proc,        \* a procedure object: its in_ and out_ and the value stack of
               \* its own machine
  mn,          \* a match_number object: dot_found_, E_pos_ and cnt_
  answers      \* what the match_number object answered for each character of
               \* expr it was called on

vars == <<pc, nlines, expr, count_args, vt, expr_, program, var_tab, stack, ip,
          entry, diag, result, compiler, lib, proc, mn, answers>>

\* no procedure has been created
no_procedure == [in |-> 0, out |-> 0, stack |-> <<>>]

\* the lines typed at the console
MaxLines == 2

x_name == <<"x">>

y_name == <<"y">>

a_name == <<"a">>

Names == {x_name, y_name, a_name}

\* literals with the value each denotes
Literals ==
  { [text |-> <<"2">>, val |-> Rat(2, 1)],
    [text |-> <<"8">>, val |-> Rat(8, 1)],
    [text |-> <<"1", ".", "5">>, val |-> Rat(3, 2)],
    [text |-> <<"1", "E", "2">>, val |-> Rat(100, 1)] }

Assignment(n, V) == n \o <<" ", "=", " ">> \o V

AssignLines == {Assignment(n, l.text) : n \in Names, l \in Literals}

ArithOps == {"+", "-", "*", "/"}

\* a op1 b op2 c, written without blanks
Arith3(a, op1, b, op2, c) == a \o <<op1>> \o b \o <<op2>> \o c

ArithLines ==
  {Arith3(x_name, o1, b, o2, c) : o1 \in ArithOps, o2 \in ArithOps,
                                    b \in {x_name, y_name}, c \in {x_name, y_name}}
    \cup {x_name \o <<o>> \o y_name : o \in ArithOps}

Triple(a, b, c) == <<"(", a, ",", b, ",", c, ")">>

TripleOps == {"+", "-", "*"}

TripleLine(o) ==
  Triple("1", "2", "3") \o <<" ", o, " ">> \o Triple("4", "5", "6")

Cross3Line ==
  <<"c", "r", "o", "s", "s", "3", "(", "1", ",", "0", ",", "0", ",",
    " ", "0", ",", "1", ",", "0", ")">>

TripleLines == {TripleLine(o) : o \in TripleOps} \cup {Cross3Line}

\* lines that end in a diagnostic or in undefined behaviour
OtherLines ==
  { <<"e", " ", "=", " ", "2">>, <<"-", "x">>, <<"(", "1", " ", "+", " ", "2">>,
    <<"2", "x">>, <<"(", ")", "+", "1">>, <<>> }

Lines == AssignLines \cup ArithLines \cup TripleLines \cup OtherLines

\* the run-time environment rt of test_vm as the state holds it; the compiler
\* is built with COUNT_ARGS and CREATE_VARS
rt(prog) ==
  rte(generate_def_functions, var_tab, generate_def_constants, prog, stack, ip)

Init ==
  /\ pc = "getline"
  /\ nlines = 0
  /\ expr = <<>>
  /\ count_args = TRUE
  /\ vt = <<>>
  /\ expr_ = <<>>
  /\ program = <<>>
  /\ var_tab = generate_def_variables
  /\ stack = <<>>
  /\ ip = 0
  /\ entry = 0
  /\ diag = ""
  /\ result = <<>>
  /\ compiler = [count_args |-> TRUE, create_variables |-> TRUE]
  /\ lib = <<>>
  /\ proc = no_procedure
  /\ mn = match_number_new
  /\ answers = <<>>

\* getline( cin, expr ) reads an expression
GetLine ==
  /\ pc = "getline"
  /\ nlines < MaxLines
  /\ \E e \in Lines : expr' = e
  /\ nlines' = nlines + 1
  /\ pc' = "parse"
  /\ diag' = ""
  /\ result' = <<>>
  /\ UNCHANGED <<mn, answers, proc, compiler, lib, count_args, vt, expr_, program, var_tab, stack, ip, entry>>

\* getline reads the command @count: mp.count_args( !mp.count_args() )
ToggleCountArgs ==
  /\ pc = "getline"
  /\ nlines < MaxLines
  /\ nlines' = nlines + 1
  /\ count_args' = ~count_args
  /\ expr' = <<"@", "c", "o", "u", "n", "t">>
  /\ diag' = ""
  /\ result' = <<>>
  /\ UNCHANGED <<mn, answers, proc, compiler, lib, pc, vt, expr_, program, var_tab, stack, ip, entry>>

\* getline reads the command @quit, or fails
Quit ==
  /\ pc = "getline"
  /\ pc' = "exit"
  /\ UNCHANGED <<mn, answers, proc, compiler, lib, nlines, expr, count_args, vt, expr_, program, var_tab, stack,
                 ip, entry, diag, result>>

\* vt = mp.parse( expr ); an exception is caught, its diagnostic printed and
\* the next line read
Parse ==
  /\ pc = "parse"
  /\ \E p \in {parse(ops_array, expr, count_args)} :
         /\ expr_' = p.expr
         /\ vt' = p.tokens
         /\ diag' = IF p.err = "none" THEN "" ELSE p.err
         /\ pc' = IF p.err = "none" THEN "compile" ELSE "getline"
  /\ UNCHANGED <<mn, answers, proc, compiler, lib, nlines, expr, count_args, program, var_tab, stack, ip, entry,
                 result>>

\* program = c.compile( vt, rt ); m.prog( &program )
Compile ==
  /\ pc = "compile"
  /\ \E c \in {compile(vt, rt(program), compiler.count_args,
                       compiler.create_variables)} :
         /\ var_tab' = c.var_tab
         /\ program' = c.program
         /\ diag' = IF c.err = "none" THEN "" ELSE c.err
         /\ pc' = IF c.err = "none" THEN "run" ELSE "getline"
         /\ vt' = IF c.err = "none" THEN vt ELSE <<>>
  /\ UNCHANGED <<mn, answers, proc, compiler, lib, nlines, expr, count_args, expr_, stack, ip, entry, result>>

\* m.run(): every instruction from entry 0 on. When the run is undefined
\* (r.ub) the program either dies or goes on in the state r describes for
\* the indeterminate value g
Run ==
  /\ pc = "run"
  /\ \E g \in Garbage, dies \in BOOLEAN :
       \E r \in {run(rt(program), 0, g)} :
           IF r.ub /\ dies
             THEN /\ pc' = "aborted"
                  /\ UNCHANGED <<var_tab, stack, ip, diag, vt, program>>
             ELSE /\ var_tab' = r.rt.var_tab
                  /\ stack' = r.rt.stack
                  /\ ip' = r.rt.ip
                  /\ diag' = IF r.err = "none" THEN "" ELSE r.err
                  /\ pc' = IF r.err = "none" THEN "print" ELSE "getline"
                  /\ vt' = IF r.err = "none" THEN vt ELSE <<>>
                  /\ program' = IF r.err = "none" THEN program ELSE <<>>
  /\ entry' = 0
  /\ UNCHANGED <<mn, answers, proc, compiler, lib, nlines, expr, count_args, expr_, result>>

\* the stack is printed from the top down and emptied; the tokens and the
\* program of the line go out of scope
PrintResult ==
  /\ pc = "print"
  /\ result' = [k \in 1..Len(stack) |-> stack[Len(stack) - k + 1]]
  /\ stack' = <<>>
  /\ vt' = <<>>
  /\ program' = <<>>
  /\ pc' = "getline"
  /\ UNCHANGED <<mn, answers, proc, compiler, lib, nlines, expr, count_args, expr_, var_tab, ip, entry, diag>>

Next ==
  \/ GetLine
  \/ ToggleCountArgs
  \/ Quit
  \/ Parse
  \/ Compile
  \/ Run
  \/ PrintResult

Spec == Init /\ [][Next]_vars

\* ---------------------------------------------------------------------------
\* The parser and the compiler on their own: parse( expr ) and then
\* compile( vt, rt ) for every text of at most MaxLen characters of Alphabet
\* and for the lines above, with the parser's count_args flag on and off
\* ---------------------------------------------------------------------------
MaxLen == 4

Alphabet == {"(", ")", "2", "x", "e", "_", "-", "+"}

Texts == UNION {[1..n -> Alphabet] : n \in 0..MaxLen}

\* calls of functions, and operators with one operand
FunctionLines ==
  { <<"s", "i", "n", "(", "x", ")">>,
    <<"s", "i", "n", "(", ")">>,
    <<"a", "t", "a", "n", "2", "(", "x", ",", "y", ")">>,
    <<"-", "s", "i", "n", "(", "x", ")">>,
    <<"s", "i", "n", "(", "-", "x", ")">>,
    <<"i", "n", "v", "(", "2", ")", "+", "x">>,
    <<"2", "-", "(", "-", "x", ")">>,
    <<"a", "t", "a", "n", "2", "(", "y", ",", "x", "+", "2", ")">>,
    <<"a", "t", "a", "n", "2", "(", "x", "+", "2", ",", "y", ")">>,
    <<"a", "t", "a", "n", "2", "(", "s", "i", "n", "(", "x", ")", ",", "y", ")">> }

\* a op b for scalar atoms a and b and a binary operator op, with and without
\* blanks around the operator
BinaryAtoms == {<<"2">>, <<"x">>, <<"e">>, <<"1", "e", "2">>}

BinaryOps == {"^", "*", "/", "-", "+", "="}

BinaryLine(a, o, b, sp) == a \o sp \o <<o>> \o sp \o b

BinaryLines ==
  {BinaryLine(a, o, b, sp) :
     a \in BinaryAtoms, o \in BinaryOps, b \in BinaryAtoms,
     sp \in {<<>>, <<BLANK>>}}

\* two operators in a row: the second takes the result of the first
ChainLines ==
  { <<"x", " ", "=", " ", "y", " ", "=", " ", "2">>,
    <<"x", " ", "+", " ", "y", " ", "+", " ", "2">> }

\* tuples of literals, names and operator sub-expressions
TupleComponents == {<<"1">>, <<"x">>, <<"x", "+", "3">>}

RECURSIVE TupleBody(_)
TupleBody(cs) ==
  IF Len(cs) = 1 THEN cs[1] ELSE cs[1] \o <<",">> \o TupleBody(Tail(cs))

Tuple(cs) == <<"(">> \o TupleBody(cs) \o <<")">>

TupleLiterals(k) == Tuple([i \in 1..k |-> <<"4">>])

\* one operand drawn from the components, the other made of literals
TupleLinesOf(k) ==
  {Tuple(cs) \o <<"+">> \o TupleLiterals(k) : cs \in [1..k -> TupleComponents]}
    \cup
  {TupleLiterals(k) \o <<"+">> \o Tuple(cs) : cs \in [1..k -> TupleComponents]}

TupleLines == TupleLinesOf(1) \cup TupleLinesOf(3)

InitParse ==
  /\ pc = "parse"
  /\ nlines = 1
  /\ expr \in Texts \cup Lines \cup FunctionLines \cup BinaryLines
               \cup ChainLines \cup TupleLines
  /\ count_args \in BOOLEAN
  /\ vt = <<>>
  /\ expr_ = <<>>
  /\ program = <<>>
  /\ var_tab = generate_def_variables
  /\ stack = <<>>
  /\ ip = 0
  /\ entry = 0
  /\ diag = ""
  /\ result = <<>>
  /\ compiler = [count_args |-> TRUE, create_variables |-> TRUE]
  /\ lib = <<>>
  /\ proc = no_procedure
  /\ mn = match_number_new
  /\ answers = <<>>

NextParse ==
  \/ Parse
  \/ Compile

SpecParse == InitParse /\ [][NextParse]_vars

\* ---------------------------------------------------------------------------
\* The parser on the text it produced: parse( expr ), and then parse again on
\* the RPN text the first parse left, as long as a parse succeeds
\* ---------------------------------------------------------------------------
\* parses of one text and the RPN texts that come of it
MaxParses == 2

\* the caller hands the RPN text of the last parse to parse
ParseRPN ==
  /\ pc = "compile"
  /\ nlines < MaxParses
  /\ expr' = expr_
  /\ nlines' = nlines + 1
  /\ pc' = "parse"
  /\ UNCHANGED <<mn, answers, proc, compiler, lib, count_args, vt, expr_, program, var_tab, stack, ip, entry,
                 diag, result>>

NextReparse ==
  \/ Parse
  \/ ParseRPN

SpecReparse == InitParse /\ [][NextReparse]_vars

\* ---------------------------------------------------------------------------
\* The virtual machine on its own: vm::run( entry ) step by step, on the
\* programs compiled from lines of the console and on programs that call each
\* function object of the default table once, after four loads
\* ---------------------------------------------------------------------------
\* how far beyond the end of the program the entry point is drawn
MaxOver == 2

\* depth of the deepest value stack the machine is started on
MaxStack == 9

StackOf(n) == [k \in 1..n |-> Rat(k, 1)]

InitStacks == {StackOf(0), StackOf(2), StackOf(MaxStack)}

rte0 ==
  rte(generate_def_functions, generate_def_variables, generate_def_constants,
      <<>>, <<>>, 0)

\* the program and the variable table compile leaves for the line e
Compiled(e) == compile(parse(ops_array, e, TRUE).tokens, rte0, TRUE, TRUE)

VMLines ==
  AssignLines \cup TripleLines
    \cup { <<"e", " ", "=", " ", "2">>,
           <<"(", "2", ",", "2", ",", "x", ")", " ", "=", " ",
             "(", "8", ",", "8", ",", "8", ")">>,
           <<"(", "x", ",", "y", ",", "z", ")", " ", "=", " ",
             "(", "1", ",", "2", ",", "3", ")">> }

\* loads of the four variables, and the same with a value loaded second
LoadVars == <<load_var(1), load_var(2), load_var(3), load_var(4)>>

LoadMixed == <<load_var(1), load_val(Rat(7, 1)), load_var(3), load_var(4)>>

VMCases ==
  {[expr |-> e, program |-> Compiled(e).program,
    var_tab |-> Compiled(e).var_tab] :
     e \in {l \in VMLines : Compiled(l).err = "none"}}
    \cup {[expr |-> <<>>, program |-> Append(loads, call_fun(f)),
           var_tab |-> generate_def_variables] :
            loads \in {LoadVars, LoadMixed},
            f \in 1..Len(generate_def_functions)}

InitVM ==
  /\ pc = "call_run"
  /\ nlines = 0
  /\ count_args = TRUE
  /\ vt = <<>>
  /\ expr_ = <<>>
  /\ \E c \in VMCases :
       expr = c.expr /\ program = c.program /\ var_tab = c.var_tab
  /\ stack \in InitStacks
  /\ ip = 0
  /\ entry \in 0..Len(program) + MaxOver
  /\ diag = ""
  /\ result = <<>>
  /\ compiler = [count_args |-> TRUE, create_variables |-> TRUE]
  /\ lib = <<>>
  /\ proc = no_procedure
  /\ mn = match_number_new
  /\ answers = <<>>

\* rte_.ip = i
RunEnter ==
  /\ pc = "call_run"
  /\ ip' = entry
  /\ pc' = "loop"
  /\ UNCHANGED <<mn, answers, proc, compiler, lib, nlines, expr, count_args, vt, expr_, program, var_tab, stack,
                 entry, diag, result>>

\* while( rte_.ip != end ) is false: run returns
LoopExit ==
  /\ pc = "loop"
  /\ ip = Len(program)
  /\ pc' = "returned"
  /\ UNCHANGED <<mn, answers, proc, compiler, lib, nlines, expr, count_args, vt, expr_, program, var_tab, stack,
                 ip, entry, diag, result>>

\* prog[ rte_.ip ]->exec( rte_ ); ++rte_.ip; inside the program. An
\* instruction whose behaviour is undefined (d.ub) ends the program or leaves
\* the state d describes for the indeterminate value g; a throw leaves run
Dispatch ==
  /\ pc = "loop"
  /\ ip < Len(program)
  /\ \E g \in Garbage, dies \in BOOLEAN :
       \E d \in {dispatch(rt(program), g)} :
           IF d.ub /\ dies
             THEN /\ pc' = "aborted"
                  /\ UNCHANGED <<var_tab, stack, ip, diag>>
             ELSE /\ var_tab' = d.rt.var_tab
                  /\ stack' = d.rt.stack
                  /\ ip' = d.rt.ip
                  /\ diag' = IF d.err = "none" THEN "" ELSE d.err
                  /\ pc' = IF d.err = "none" THEN "loop" ELSE "thrown"
  /\ UNCHANGED <<mn, answers, proc, compiler, lib, nlines, expr, count_args, vt, expr_, program, entry, result>>

\* rte_.ip != end holds beyond the end too: prog[ rte_.ip ] is read outside
\* the program. What the read gives is not defined: the program ends, or the
\* call does nothing the state shows and the loop goes on
DispatchOutside ==
  /\ pc = "loop"
  /\ ip > Len(program)
  /\ \/ /\ pc' = "aborted"
        /\ ip' = ip
     \/ /\ ip < Len(program) + MaxOver
        /\ pc' = "loop"
        /\ ip' = ip + 1
  /\ UNCHANGED <<mn, answers, proc, compiler, lib, nlines, expr, count_args, vt, expr_, program, var_tab, stack,
                 entry, diag, result>>

NextVM ==
  \/ RunEnter
  \/ LoopExit
  \/ Dispatch
  \/ DispatchOutside

SpecVM == InitVM /\ [][NextVM]_vars

\* ---------------------------------------------------------------------------
\* A caller of the compiler and the machine: token vectors are compiled one
\* after the other against the same run-time environment, with the compiler's
\* flags set either way; the caller keeps the programs compile returned and
\* runs any of them, printing and emptying the stack as the console does
\* ---------------------------------------------------------------------------
MaxTokens == 2

MaxCompiles == 2

MaxDirty == 2

b_name == <<"b">>

\* a value, the names of a variable, of no cell, of a constant and of a
\* function, calls and operators with and without a function object, an
\* Unknown token and a null handle
TokenAlphabet ==
  { value_token(<<"2">>),
    name_token(x_name), name_token(b_name), name_token(<<"P", "i">>),
    name_token(<<"s", "i", "n">>),
    function_token(<<"s", "i", "n">>, 1, -1),
    function_token(<<"s", "i", "n">>, 2, -1),
    operator_token(<<"=">>, 1, 1, 1),
    operator_token(<<"+">>, 1, 1, 1),
    operator_token(<<"+">>, 2, 2, 2),
    token(<<"?">>),
    null_token }

\* 2 n = : the assignment n = 2
AssignTokens(n) ==
  <<value_token(<<"2">>), name_token(n), operator_token(<<"=">>, 1, 1, 1)>>

TokenSeqs ==
  UNION {[1..n -> TokenAlphabet] : n \in 0..MaxTokens}
    \cup {AssignTokens(n) : n \in {x_name, b_name, <<"P", "i">>}}

InitCompile ==
  /\ pc = "compile"
  /\ nlines = 1
  /\ expr = <<>>
  /\ count_args = TRUE
  /\ vt \in TokenSeqs
  /\ expr_ = <<>>
  /\ program = <<>>
  /\ var_tab = generate_def_variables
  /\ stack = <<>>
  /\ ip = 0
  /\ entry = 0
  /\ diag = ""
  /\ result = <<>>
  /\ compiler \in [count_args : BOOLEAN, create_variables : BOOLEAN]
  /\ lib = <<>>
  /\ proc = no_procedure
  /\ mn = match_number_new
  /\ answers = <<>>

\* c.compile( vt, rt ): the program is kept when compile returns one; a throw
\* leaves the cells created for the tokens before the failing one
CompileTokens ==
  /\ pc = "compile"
  /\ \E c \in {compile(vt, rt(program), compiler.count_args,
                       compiler.create_variables)} :
         /\ var_tab' = c.var_tab
         /\ lib' = IF c.err = "none" THEN Append(lib, c.program) ELSE lib
         /\ diag' = IF c.err = "none" THEN "" ELSE c.err
  /\ pc' = "compiled"
  /\ UNCHANGED <<mn, answers, proc, compiler, nlines, expr, count_args, vt, expr_, program, stack,
                 ip, entry, result>>

\* the caller hands the next token vector to the compiler
NextTokens ==
  /\ pc = "compiled"
  /\ nlines < MaxCompiles
  /\ vt' \in TokenSeqs
  /\ nlines' = nlines + 1
  /\ diag' = ""
  /\ pc' = "compile"
  /\ UNCHANGED <<mn, answers, proc, compiler, lib, expr, count_args, expr_, program, var_tab,
                 stack, ip, entry, result>>

\* m.prog( &p ); m.run(); for a program p the caller kept, then the values on
\* the stack are printed and popped; a throw leaves the stack as it is
RunProgram ==
  /\ pc = "compiled"
  /\ Len(stack) < MaxDirty
  /\ \E k \in 1..Len(lib), g \in Garbage, dies \in BOOLEAN :
       \E r \in {run(rt(lib[k]), 0, g)} :
           IF r.ub /\ dies
             THEN /\ pc' = "aborted"
                  /\ UNCHANGED <<var_tab, stack, ip, diag, result, program>>
             ELSE /\ program' = lib[k]
                  /\ var_tab' = r.rt.var_tab
                  /\ ip' = r.rt.ip
                  /\ diag' = IF r.err = "none" THEN "" ELSE r.err
                  /\ stack' = IF r.err = "none" THEN <<>> ELSE r.rt.stack
                  /\ result' = IF r.err = "none"
                                 THEN [i \in 1..Len(r.rt.stack) |->
                                         r.rt.stack[Len(r.rt.stack) - i + 1]]
                                 ELSE result
                  /\ pc' = "compiled"
  /\ entry' = 0
  /\ UNCHANGED <<mn, answers, proc, compiler, lib, nlines, expr, count_args, vt, expr_>>

NextCompile ==
  \/ CompileTokens
  \/ NextTokens
  \/ RunProgram

SpecCompile == InitCompile /\ [][NextCompile]_vars

\* ---------------------------------------------------------------------------
\* A procedure on its own: a function object that runs a compiled program on
\* a machine of its own, whose environment r holds the procedure's variables
\* and its own value stack. Calls follow one another on the caller's stack.
\* ---------------------------------------------------------------------------
\* for( i = 0; i < in_ && vi != end; ++i, ++vi ): the values popped from the
\* caller's stack are stored in the procedure's variables, the top first
RECURSIVE procedure_copy_in(_, _, _, _, _, _)
procedure_copy_in(i, in, st, cells, g, ub) ==
  IF i >= in \/ i >= Len(cells)
    THEN [stack |-> st, var_tab |-> cells, ub |-> ub]
    ELSE procedure_copy_in(i + 1, in, Pop(st),
                           [cells EXCEPT ![i + 1].val = Top(st, g)], g,
                           ub \/ st = <<>>)

\* for( o = 0; o < out_; ++o ) { rt.stack.push( r.stack.top() ); r.stack.pop(); }
RECURSIVE procedure_copy_out(_, _, _, _, _, _)
procedure_copy_out(o, out, st, local, g, ub) ==
  IF o >= out
    THEN [stack |-> st, local |-> local, ub |-> ub]
    ELSE procedure_copy_out(o + 1, out, Append(st, Top(local, g)), Pop(local),
                            g, ub \/ local = <<>>)

\* procedure::operator()( rt ): st is the caller's stack, cells and local the
\* variables and the stack of the procedure's machine, prog its program; a
\* throw of the inner run leaves the three as the run left them
procedure_call(p, prog, cells, st, g) ==
  LET in == procedure_copy_in(0, p.in, st, cells, g, FALSE)
      r  == run(rte(generate_def_functions, in.var_tab,
                    generate_def_constants, prog, p.stack, 0), 0, g)
      out == procedure_copy_out(0, p.out, in.stack, r.rt.stack, g,
                                in.ub \/ r.ub)
  IN  IF r.err # "none"
        THEN [stack |-> in.stack, var_tab |-> r.rt.var_tab,
              local |-> r.rt.stack, err |-> r.err, ub |-> in.ub \/ r.ub]
        ELSE [stack |-> out.stack, var_tab |-> r.rt.var_tab,
              local |-> out.local, err |-> "none", ub |-> out.ub]

MaxCalls == 2

MaxIn == 2

MaxOut == 3

\* the programs of the procedures: loads of values and of the procedure's
\* variables, an addition, and an assignment to a value, which throws
ProcPrograms ==
  { <<>>,
    <<load_val(Rat(5, 1))>>,
    <<load_val(Rat(5, 1)), load_val(Rat(7, 1))>>,
    <<load_val(Rat(5, 1)), load_val(Rat(7, 1)), load_val(Rat(9, 1))>>,
    <<load_var(1), load_var(2)>>,
    <<load_var(1), load_val(Rat(5, 1)), load_var(2)>>,
    <<load_var(1), load_var(2),
      call_fun(function_p(generate_def_functions, <<"+">>, 1, 1))>>,
    <<load_val(Rat(5, 1)), load_val(Rat(7, 1)),
      call_fun(function_p(generate_def_functions, <<"=">>, 1, 1))>> }

InitProc ==
  /\ pc = "call"
  /\ nlines = 0
  /\ expr = <<>>
  /\ count_args = TRUE
  /\ vt = <<>>
  /\ expr_ = <<>>
  /\ program \in ProcPrograms
  /\ var_tab = <<[name |-> x_name, val |-> zero], [name |-> y_name, val |-> zero]>>
  /\ stack \in {StackOf(n) : n \in 0..3}
  /\ ip = 0
  /\ entry = 0
  /\ diag = ""
  /\ result = <<>>
  /\ compiler = [count_args |-> FALSE, create_variables |-> TRUE]
  /\ lib = <<>>
  /\ proc \in [in : 0..MaxIn, out : 0..MaxOut, stack : {<<>>}]
  /\ mn = match_number_new
  /\ answers = <<>>

\* ( *fun_p )( rt ) on the procedure: when the call is undefined (a stack is
\* read while empty) the program either dies or goes on with the value g
ProcedureCall ==
  /\ pc = "call"
  /\ nlines < MaxCalls
  /\ \E g \in Garbage, dies \in BOOLEAN :
       \E c \in {procedure_call(proc, program, var_tab, stack, g)} :
           IF c.ub /\ dies
             THEN /\ pc' = "aborted"
                  /\ UNCHANGED <<stack, var_tab, proc, diag>>
             ELSE /\ stack' = c.stack
                  /\ var_tab' = c.var_tab
                  /\ proc' = [proc EXCEPT !.stack = c.local]
                  /\ diag' = IF c.err = "none" THEN "" ELSE c.err
                  /\ pc' = IF c.err = "none" THEN "call" ELSE "thrown"
  /\ nlines' = nlines + 1
  /\ UNCHANGED <<mn, answers, compiler, lib, expr, count_args, vt, expr_, program, ip, entry,
                 result>>

\* the caller pops the value on top of its stack
CallerPop ==
  /\ pc = "call"
  /\ stack # <<>>
  /\ stack' = Pop(stack)
  /\ UNCHANGED <<mn, answers, proc, compiler, lib, pc, nlines, expr, count_args, vt, expr_,
                 program, var_tab, ip, entry, diag, result>>

NextProc ==
  \/ ProcedureCall
  \/ CallerPop

SpecProc == InitProc /\ [][NextProc]_vars

\* ---------------------------------------------------------------------------
\* The number matcher on its own: one match_number object is called on the
\* characters of a text one after the other, as find_if calls it
\* ---------------------------------------------------------------------------
\* the longest text the matcher is called on
MaxText == 6

MatchAlphabet == {"2", DOT, "e", "E", PLUS, MINUS, "x"}

InitMatch ==
  /\ pc = "match"
  /\ nlines = 0
  /\ expr = <<>>
  /\ count_args = TRUE
  /\ vt = <<>>
  /\ expr_ = <<>>
  /\ program = <<>>
  /\ var_tab = <<>>
  /\ stack = <<>>
  /\ ip = 0
  /\ entry = 0
  /\ diag = ""
  /\ result = <<>>
  /\ compiler = [count_args |-> TRUE, create_variables |-> TRUE]
  /\ lib = <<>>
  /\ proc = no_procedure
  /\ mn = match_number_new
  /\ answers = <<>>

\* pred( *i ) for the next character of the text
MatchChar ==
  /\ pc = "match"
  /\ Len(expr) < MaxText
  /\ \E ch \in MatchAlphabet :
       \E r \in {match_number(mn, ch)} :
           /\ expr' = Append(expr, ch)
           /\ answers' = Append(answers, r.ok)
           /\ mn' = r.st
  /\ UNCHANGED <<proc, compiler, lib, pc, nlines, count_args, vt, expr_,
                 program, var_tab, stack, ip, entry, diag, result>>

NextMatch == MatchChar

SpecMatch == InitMatch /\ [][NextMatch]_vars

\* ---------------------------------------------------------------------------
\* Properties
\* ---------------------------------------------------------------------------

\* the instruction inst is the one compiled from the token t: a value loads
\* the number it spells, a name loads its variable cell or the value of its
\* constant, a function or an operator calls the function object of that name
\* and, when the token carries them, of those numbers of arguments
C1_compiled_from(t, inst) ==
  IF t.type = "VALUE" THEN inst = load_val(atof(t.str))
  ELSE IF t.type = "NAME"
    THEN IF variable_p(var_tab, t.str) # 0
           THEN inst = load_var(variable_p(var_tab, t.str))
           ELSE /\ constant_p(generate_def_constants, t.str) # 0
                /\ inst = load_val(
                     generate_def_constants[
                       constant_p(generate_def_constants, t.str)].val)
  ELSE IF t.type = "FUNCTION"
    THEN /\ inst.op = "call_fun"
         /\ inst.fun \in 1..Len(generate_def_functions)
         /\ generate_def_functions[inst.fun].name = t.str
         /\ generate_def_functions[inst.fun].rvalues_in = t.args
  ELSE IF t.type = "OPERATOR"
    THEN /\ inst.op = "call_fun"
         /\ inst.fun \in 1..Len(generate_def_functions)
         /\ generate_def_functions[inst.fun].name = t.str
         /\ t.rargs >= 0 =>
              /\ generate_def_functions[inst.fun].rvalues_in = t.rargs
              /\ generate_def_functions[inst.fun].lvalues_in = t.largs
  ELSE FALSE

\* C1: when compile succeeds the program has exactly as many instructions as
\* there are tokens, and the i-th instruction is the one compiled from the
\* i-th token: no token is dropped, merged or reordered
C1_one_instruction_per_token ==
  pc = "run" =>
    /\ Len(program) = Len(vt)
    /\ \A i \in 1..Len(vt) : C1_compiled_from(vt[i], program[i])

\* a value, a variable and an operator have been compiled, in that order
C1_witness ==
  /\ pc = "run"
  /\ Len(vt) = 3
  /\ vt[1].type = "VALUE" /\ program[1].op = "load_val"
  /\ vt[2].type = "NAME" /\ program[2].op = "load_var"
  /\ vt[3].type = "OPERATOR" /\ program[3].op = "call_fun"

\* C2: with count_args on, running the program of the line "n = V", for a
\* variable n and a literal V, prints a result; it pushes V and nothing else
\* on the value stack, and it writes V in the cell of n and in no other: that
\* cell is the one of the load_var instruction just before the call of "="
C2_assignment ==
  [][\A n \in Names, l \in Literals :
       pc = "run" /\ count_args /\ expr = Assignment(n, l.text) =>
         /\ pc' = "print"
         /\ stack' = Append(stack, l.val)
         /\ Len(program) >= 2
         /\ program[Len(program) - 1].op = "load_var"
         /\ var_tab[program[Len(program) - 1].cell].name = n
         /\ var_tab' = [var_tab EXCEPT
                          ![program[Len(program) - 1].cell].val = l.val]]_vars

\* "x = 8" has run on a stack that held a value already
C2_witness ==
  /\ pc = "print"
  /\ count_args
  /\ expr = Assignment(x_name, <<"8">>)
  /\ Len(stack) = 2
  /\ stack[2] = Rat(8, 1)
  /\ var_tab[variable_p(var_tab, x_name)].val = Rat(8, 1)


\* C3: vm::run( entry ) sets the instruction pointer to entry and executes
\* the instructions at entry, entry + 1, ... one after the other while the
\* instruction pointer is below the size of the program: the loop is only
\* ever positioned from entry up to the size of the program, every pass of
\* the loop is on an instruction of the program and moves the pointer up by
\* one, and an entry beyond the size executes nothing and returns.
C3_run_stays_inside_program ==
  [][ /\ pc' = "loop" => entry <= ip' /\ ip' <= Len(program)
      /\ pc = "loop" /\ pc' = "loop" => ip < Len(program) /\ ip' = ip + 1
      /\ pc = "loop" /\ ip >= Len(program) =>
           pc' = "returned" /\ stack' = stack /\ var_tab' = var_tab ]_vars


\* the conventional evaluation of m op1 n op2 k on integers: * and / before
\* + and -, operators of one precedence from left to right
C4_op(o, m, n) ==
  CASE o = "+" -> m + n
    [] o = "-" -> m - n
    [] o = "*" -> m * n
    [] o = "/" -> m \div n

C4_binds_tighter(o) == o \in {"*", "/"}

C4_left_first(o1, o2) == C4_binds_tighter(o1) \/ ~C4_binds_tighter(o2)

C4_conventional(m, o1, n, o2, k) ==
  IF C4_left_first(o1, o2)
    THEN C4_op(o2, C4_op(o1, m, n), k)
    ELSE C4_op(o1, m, C4_op(o2, n, k))

\* m / n is defined and exact
C4_divides(m, n) == n # 0 /\ Abs(m) % Abs(n) = 0

\* every division of the conventional evaluation is exact
C4_exact(m, o1, n, o2, k) ==
  IF C4_left_first(o1, o2)
    THEN /\ o1 = "/" => C4_divides(m, n)
         /\ o2 = "/" => C4_divides(C4_op(o1, m, n), k)
    ELSE /\ o2 = "/" => C4_divides(n, k)

C4_is_integer(v) == IsRat(v) /\ v.den = 1

C4_value(n) == var_tab[variable_p(var_tab, n)].val

\* C4: an expression x op1 b op2 c over variables with integer values and the
\* operators + - * /, every division exact, parsed with the operator table of
\* the console program, compiled and run on an empty stack, leaves exactly one
\* value on the stack: the conventional evaluation, in which * and / bind tighter than +
\* and - and operators of one precedence associate from left to right.
C4_conventional_evaluation ==
  [][\A o1 \in ArithOps, o2 \in ArithOps, b \in {x_name, y_name},
        c \in {x_name, y_name} :
       ( /\ pc = "run"
         /\ count_args
         /\ stack = <<>>
         /\ expr = Arith3(x_name, o1, b, o2, c)
         /\ C4_is_integer(C4_value(x_name))
         /\ C4_is_integer(C4_value(y_name))
         /\ C4_exact(C4_value(x_name).num, o1, C4_value(b).num, o2,
                     C4_value(c).num) )
       => /\ pc' = "print"
          /\ stack' = << Rat(C4_conventional(C4_value(x_name).num, o1,
                                             C4_value(b).num, o2,
                                             C4_value(c).num), 1) >>]_vars


\* the function object the instruction at ip calls
C5_callee == generate_def_functions[program[ip + 1].fun]

\* the machine is about to call a function object on at least six values
C5_at_call ==
  /\ pc = "loop"
  /\ ip < Len(program)
  /\ program[ip + 1].op = "call_fun"
  /\ Len(stack) >= 6

\* the operands (a1, a2, a3) and (b1, b2, b3): b3 is on top of the stack
C5_a(i) == stack[Len(stack) - 6 + i]

C5_b(i) == stack[Len(stack) - 3 + i]

\* the components of a op b for the lifted function f, and of a x b
C5_lifted(f) ==
  [i \in 1..3 |-> binary_f(f, C5_a(i), C5_b(i))]

C5_cross ==
  << sub(mul(C5_a(2), C5_b(3)), mul(C5_b(2), C5_a(3))),
     sub(mul(C5_b(1), C5_a(3)), mul(C5_a(1), C5_b(3))),
     sub(mul(C5_a(1), C5_b(2)), mul(C5_b(1), C5_a(2))) >>

\* the n topmost values of st read from the top down
C5_top_to_bottom(st, n) == [k \in 1..n |-> st[Len(st) - k + 1]]

\* r read from its first component, or from its last
C5_read(r, first_on_top) ==
  IF first_on_top THEN r ELSE <<r[3], r[2], r[1]>>

C5_integers(i, j, k) == <<Rat(i, 1), Rat(j, 1), Rat(k, 1)>>

\* a step of the machine leaves the results of the three-valued operations
\* with their first component on top, or with their last
C5_results(first_on_top) ==
  /\ C5_at_call /\ C5_callee.kind = "vector_op_apply" =>
       /\ pc' = "loop"
       /\ Len(stack') = Len(stack) - 3
       /\ PopN(stack', 3) = PopN(stack, 6)
       /\ C5_top_to_bottom(stack', 3)
            = C5_read(C5_lifted(C5_callee.f), first_on_top)
  /\ C5_at_call /\ C5_callee.kind = "crossprod3" =>
       /\ pc' = "loop"
       /\ Len(stack') = Len(stack) - 3
       /\ PopN(stack', 3) = PopN(stack, 6)
       /\ C5_top_to_bottom(stack', 3) = C5_read(C5_cross, first_on_top)
  /\ pc' = "returned" /\ entry = 0 /\ expr = TripleLine("+") =>
       /\ Len(stack') >= 3
       /\ C5_top_to_bottom(stack', 3)
            = C5_read(C5_integers(5, 7, 9), first_on_top)
  /\ pc' = "returned" /\ entry = 0 /\ expr = Cross3Line =>
       /\ Len(stack') >= 3
       /\ C5_top_to_bottom(stack', 3)
            = C5_read(C5_integers(0, 0, 1), first_on_top)

\* C5 as stated: the three-valued operations leave their result with the
\* first component on top of the stack: (1,2,3) + (4,5,6) leaves, from the top
\* down, 5, 7, 9 (a1 op b1, a2 op b2, a3 op b3 for every lifted binary
\* operator) and cross3(1,0,0, 0,1,0) leaves, from the top down, 0, 0, 1.
C5_first_component_on_top == [][C5_results(TRUE)]_vars

\* C5 as the code has it: the three-valued operations leave their result with
\* the last component on top of the stack, as the operands are: (1,2,3) +
\* (4,5,6) leaves, from the top down, 9, 7, 5 (a3 op b3, a2 op b2, a1 op b1
\* for every lifted binary operator) and cross3(1,0,0, 0,1,0) leaves, from
\* the top down, 1, 0, 0.
C5_last_component_on_top == [][C5_results(FALSE)]_vars

C5_witness ==
  /\ pc = "returned"
  /\ entry = 0
  /\ expr = TripleLine("+")
  /\ stack = C5_integers(5, 7, 9)


\* the function object the instruction at ip calls
C6_callee == generate_def_functions[program[ip + 1].fun]

\* the machine is about to call a function object of the default table on a
\* stack that holds at least its values_in values
C6_at_call ==
  /\ pc = "loop"
  /\ ip < Len(program)
  /\ program[ip + 1].op = "call_fun"
  /\ Len(stack) >= C6_callee.values_in

\* the n lowest values of st
C6_lowest(st, n) == SubSeq(st, 1, n)

\* C6: every function object of the default table, invoked on a value stack
\* holding at least values_in values, changes the depth of the stack by
\* exactly values_out - values_in and leaves every value below its values_in
\* topmost inputs unchanged.
C6_stack_effect ==
  [][C6_at_call =>
       /\ Len(stack') = Len(stack) + C6_callee.values_out - C6_callee.values_in
       /\ C6_lowest(stack', Len(stack) - C6_callee.values_in)
            = C6_lowest(stack, Len(stack) - C6_callee.values_in)]_vars


\* opening less closing parentheses among s[i..j]
C7_depth(s, i, j) ==
  Cardinality({k \in i..j : s[k] = OPENPAR})
    - Cardinality({k \in i..j : s[k] = CLOSEPAR})

\* the parentheses of s are balanced: as many open as close, and no prefix
\* closes more than it opens
C7_balanced(s) ==
  /\ C7_depth(s, 1, Len(s)) = 0
  /\ \A j \in 1..Len(s) : C7_depth(s, 1, j) >= 0

\* the parenthesis at position i of s has a partner
C7_has_partner(s, i) ==
  IF s[i] = OPENPAR
    THEN \E j \in i + 1..Len(s) : s[j] = CLOSEPAR /\ C7_depth(s, i, j) = 0
    ELSE \E j \in 1..i - 1 : s[j] = OPENPAR /\ C7_depth(s, j, i) = 0

C7_without_partner(s) ==
  {i \in 1..Len(s) : s[i] \in {OPENPAR, CLOSEPAR} /\ ~C7_has_partner(s, i)}

\* the error of the leftmost parenthesis of s without a partner
C7_leftmost_error(s) ==
  IF s[CHOOSE i \in C7_without_partner(s) :
         \A j \in C7_without_partner(s) : i <= j] = OPENPAR
    THEN "UnmatchedOpeningPar"
    ELSE "UnmatchedClosingPar"

C7_par_errors == {"UnmatchedOpeningPar", "UnmatchedClosingPar"}

\* C7: parse( expr ) fails with UnmatchedOpeningPar or UnmatchedClosingPar if
\* and only if the parentheses of expr are not balanced; the error is that of
\* the leftmost parenthesis without a partner, and no tokens are produced; a
\* balanced expr raises neither.
C7_parenthesis_errors ==
  [][pc = "parse" =>
       /\ diag' \in C7_par_errors <=> ~C7_balanced(expr)
       /\ ~C7_balanced(expr) =>
            /\ C7_without_partner(expr) # {}
            /\ diag' = C7_leftmost_error(expr)
            /\ vt' = <<>>
            /\ pc' = "getline"]_vars

C7_witness ==
  /\ pc = "getline"
  /\ expr = <<")", "(">>
  /\ diag = "UnmatchedClosingPar"
  /\ vt = <<>>


\* the end of the run of digits of s that starts at position i (i - 1 when
\* there is no digit at i), for i <= Len(s) + 1
C8_run_end(s, i) ==
  CHOOSE j \in i - 1..Len(s) :
    /\ \A k \in i..j : IsDigit(s[k])
    /\ j = Len(s) \/ ~IsDigit(s[j + 1])

\* digits, then a decimal point and digits if there are any
C8_mantissa_end(s, i) ==
  LET after_point(d) ==
        IF d + 2 <= Len(s) /\ s[d + 1] = DOT /\ IsDigit(s[d + 2])
          THEN C8_run_end(s, d + 2)
          ELSE d
  IN  after_point(C8_run_end(s, i))

\* the end of the numeric literal of s that starts at position i: a mantissa,
\* then E, a sign if there is one and digits, if they are all there
C8_literal_end(s, i) ==
  LET exponent(m, p) ==
        IF p <= Len(s) /\ IsDigit(s[p]) THEN C8_run_end(s, p) ELSE m
      after_mantissa(m) ==
        IF m + 1 <= Len(s) /\ IsE(s[m + 1])
          THEN IF m + 2 <= Len(s) /\ s[m + 2] \in {PLUS, MINUS}
                 THEN exponent(m, m + 3)
                 ELSE exponent(m, m + 2)
          ELSE m
  IN  after_mantissa(C8_mantissa_end(s, i))

C8_name_start == LowerCase \cup UpperCase \cup {UNDER_BAR}

\* a numeric literal starts at position i of s
C8_literal_at(s, i) ==
  /\ IsDigit(s[i])
  /\ i = 1 \/ s[i - 1] \notin C8_name_start \cup Digits \cup {DOT}

\* a numeric literal of s is immediately followed by a letter or underscore
C8_number_then_name(s) ==
  \E i \in 1..Len(s) :
    /\ C8_literal_at(s, i)
    /\ C8_literal_end(s, i) < Len(s)
    /\ s[C8_literal_end(s, i) + 1] \in C8_name_start

\* C8: for every expression with balanced parentheses in which a numeric
\* literal is immediately followed by a letter or underscore (2x, 1+2y, 2e),
\* parse fails with InvalidName during validation and produces no tokens.
C8_number_then_name_is_invalid ==
  [][pc = "parse" /\ C7_balanced(expr) /\ C8_number_then_name(expr) =>
       /\ diag' = "InvalidName"
       /\ vt' = <<>>
       /\ pc' = "getline"]_vars


\* the tokens vt hold an Operator or a Function token
C9_annotated(tokens) ==
  \E i \in 1..Len(tokens) : tokens[i].type \in {"OPERATOR", "FUNCTION"}

\* parse is about to parse the RPN text of the parse that gave vt
C9_at_reparse == pc = "parse" /\ nlines > 1 /\ count_args

C9_plain(tokens) ==
  \A i \in 1..Len(tokens) : tokens[i].type \in {"VALUE", "NAME"}

\* the parse of the RPN text fails in validate, without tokens
C9_rejected ==
  /\ pc' = "getline"
  /\ diag' \in {"UnknownSymbol", "InvalidName"}
  /\ vt' = <<>>

C10_parsed == pc = "compile" /\ nlines = 1 /\ count_args

\* every Operator token of vt has at least lmin left values
C10_arities(lmin) ==
  \A i \in 1..Len(vt) :
    /\ vt[i].type = "OPERATOR" =>
         vt[i].largs >= lmin /\ vt[i].rargs >= 1 /\ vt[i].outvalues >= 0
    /\ vt[i].type = "FUNCTION" => vt[i].args >= 0

\* C10 as stated: for every expression that passes validation and parses with
\* count_args on, every Operator token has largs >= 1, rargs >= 1 and
\* outvalues >= 0 and every Function token has args >= 0, operators written
\* with a single operand such as -x included.
C10_positive_arities == C10_parsed => C10_arities(1)

\* C10 as the code has it: for every expression that passes validation and
\* parses with count_args on, every Operator token has largs >= 0, rargs >= 1
\* and outvalues >= 0 and every Function token has args >= 0; an operator
\* written with a single operand, such as -x, has largs = 0.
C10_non_negative_arities ==
  C10_parsed =>
    /\ C10_arities(0)
    /\ expr = <<"-", "x">> =>
         /\ Len(vt) = 2
         /\ vt[2].type = "OPERATOR"
         /\ vt[2].largs = 0 /\ vt[2].rargs = 1 /\ vt[2].outvalues = 1

C10_witness ==
  /\ C10_parsed
  /\ expr = <<"-", "s", "i", "n", "(", "x", ")">>
  /\ Len(vt) = 3
  /\ vt[2].type = "FUNCTION" /\ vt[2].args = 1
  /\ vt[3].type = "OPERATOR" /\ vt[3].largs = 0 /\ vt[3].rargs = 1



\* the characters a name is made of
C11_name_chars == LowerCase \cup UpperCase \cup Digits \cup {UNDER_BAR}

\* the first character of the run of name characters that ends right before
\* position i of s
C11_name_start(s, i) ==
  CHOOSE b \in 1..i - 1 :
    /\ \A k \in b..i - 1 : s[k] \in C11_name_chars
    /\ b = 1 \/ s[b - 1] \notin C11_name_chars

\* the parentheses of s that directly follow a run of name characters
C11_applied(s) ==
  {i \in 2..Len(s) : s[i] = OPENPAR /\ s[i - 1] \in C11_name_chars}

\* the opening parentheses of the function calls written in s: those that
\* follow a name which is not the name of an operator
C11_calls(s) ==
  {i \in C11_applied(s) :
     /\ s[C11_name_start(s, i)] \notin Digits
     /\ ~findop(ops_array, SubSeq(s, C11_name_start(s, i), i - 1))}

\* no parenthesis of s directly follows a number or a number run into a name
C11_only_names_applied(s) ==
  \A i \in C11_applied(s) : s[C11_name_start(s, i)] \notin Digits

\* the parenthesis that closes the one at position i of s
C11_closing(s, i) ==
  CHOOSE j \in i + 1..Len(s) :
    /\ s[j] = CLOSEPAR
    /\ C7_depth(s, i, j) = 0
    /\ \A k \in i + 1..j - 1 : C7_depth(s, i, k) > 0

\* the number of top-level comma-separated arguments written in the call
\* whose parenthesis opens at position i of s
C11_written_args(s, i) ==
  IF \A k \in i + 1..C11_closing(s, i) - 1 : s[k] = BLANK
    THEN 0
    ELSE 1 + Cardinality({k \in i + 1..C11_closing(s, i) - 1 :
                            s[k] = ARGS_SEPARATOR /\ C7_depth(s, i, k) = 1})

\* the Function tokens, in the order of the token sequence
C11_function_tokens(tokens) ==
  SelectSeq(tokens, LAMBDA t : t.type = "FUNCTION")

\* a call is emitted when its closing parenthesis is reached: its Function
\* token is the n-th one, n the number of calls closed up to there
C11_rank(s, i) ==
  Cardinality({c \in C11_calls(s) : C11_closing(s, c) <= C11_closing(s, i)})

C11_parsed == pc = "compile" /\ nlines = 1 /\ count_args

\* C11: with count_args on, the args value of each Function token equals the
\* number of top-level comma-separated arguments written in that call,
\* whatever the arguments are.
C11_args_are_written_arguments ==
  C11_parsed /\ C11_only_names_applied(expr) =>
    /\ Len(C11_function_tokens(vt)) = Cardinality(C11_calls(expr))
    /\ \A c \in C11_calls(expr) :
         C11_function_tokens(vt)[C11_rank(expr, c)].args
           = C11_written_args(expr, c)



\* the descriptor of the binary operator o on scalars
C12_descriptor(o) ==
  ops_array[CHOOSE k \in 1..Len(ops_array) :
              /\ ops_array[k].name = <<o>>
              /\ ops_array[k].operands = 2
              /\ ops_array[k].largs = 1
              /\ ops_array[k].rargs = 1]

\* the token of a scalar atom: a Value for a number, a Name for a name
C12_atom(a) ==
  [type |-> IF IsDigit(a[1]) THEN "VALUE" ELSE "NAME", str |-> a]

C12_operator(o) ==
  [type |-> "OPERATOR", str |-> <<o>>, largs |-> 1, rargs |-> 1,
   outvalues |-> C12_descriptor(o).outvals]

\* the three tokens of a op b
C12_tokens(a, o, b) ==
  IF C12_descriptor(o).swap
    THEN <<C12_atom(b), C12_atom(a), C12_operator(o)>>
    ELSE <<C12_atom(a), C12_atom(b), C12_operator(o)>>

C12_at_parse == pc = "parse" /\ nlines = 1 /\ count_args

\* C12: with count_args on, parsing a op b, a and b scalar atoms and op a
\* binary operator, yields exactly the three tokens a, b, Operator(op,1,1,out)
\* when the descriptor has swap = false and b, a, Operator(op,1,1,out) when it
\* has swap = true.
C12_three_tokens ==
  [][\A a \in BinaryAtoms, b \in BinaryAtoms, o \in BinaryOps,
        sp \in {<<>>, <<BLANK>>} :
       C12_at_parse /\ expr = BinaryLine(a, o, b, sp) =>
         pc' = "compile" /\ vt' = C12_tokens(a, o, b)]_vars



\* the function table holds a function of that name and, unless rargs < 0,
\* of those numbers of right and left values
C13_has_function(name, rargs, largs) ==
  \E k \in 1..Len(generate_def_functions) :
    /\ generate_def_functions[k].name = name
    /\ rargs >= 0 => /\ generate_def_functions[k].rvalues_in = rargs
                     /\ generate_def_functions[k].lvalues_in = largs

C13_has_cell(tab, name) == \E k \in 1..Len(tab) : tab[k].name = name

\* the token t is one compile refuses with UnknownToken
C13_unknown(t) ==
  \/ t.type = "UNKNOWN"
  \/ /\ t.type = "FUNCTION"
     /\ ~C13_has_function(t.str, IF compiler.count_args THEN t.args ELSE -1, 0)
  \/ /\ t.type = "OPERATOR"
     /\ ~C13_has_function(t.str, t.rargs, t.largs)
  \/ /\ t.type = "NAME"
     /\ compiler.count_args \/ ~C13_has_function(t.str, -1, 0)
     /\ ~C13_has_cell(var_tab, t.str)
     /\ ~C13_has_cell(generate_def_constants, t.str)
     /\ ~compiler.create_variables

C13_null(t) == t.type = "NULL"

C13_refused == {i \in 1..Len(vt) : C13_unknown(vt[i]) \/ C13_null(vt[i])}

\* the first token compile refuses
C13_first_refused == CHOOSE i \in C13_refused : \A j \in C13_refused : i <= j

C13_failed == diag' # "" /\ lib' = lib

C13_succeeded ==
  diag' = "" /\ Len(lib') = Len(lib) + 1 /\ Len(lib'[Len(lib')]) = Len(vt)

\* C13 as stated: compile fails with UnknownToken exactly when some token is
\* Unknown, a Function or Operator without a function object, or a Name that
\* matches nothing while create_variables is off; with NullToken exactly when
\* a token handle is null; it succeeds in every other case; on failure no
\* program is returned.
C13_error_by_any_token ==
  [][pc = "compile" =>
       /\ diag' = "UnknownToken" <=> \E i \in 1..Len(vt) : C13_unknown(vt[i])
       /\ diag' = "NullToken" <=> \E i \in 1..Len(vt) : C13_null(vt[i])
       /\ C13_refused = {} <=> C13_succeeded
       /\ C13_refused # {} <=> C13_failed]_vars

\* C13 amended: compile fails exactly when some token is one of those, and
\* the error is the one of the first such token: NullToken for a null handle,
\* UnknownToken otherwise; on failure no program is returned.
C13_error_by_first_token ==
  [][pc = "compile" =>
       /\ C13_refused = {} <=> C13_succeeded
       /\ C13_refused # {} <=> C13_failed
       /\ C13_refused # {} =>
            diag' = IF C13_null(vt[C13_first_refused])
                      THEN "NullToken" ELSE "UnknownToken"]_vars

C13_witness ==
  /\ pc = "compiled"
  /\ vt = <<token(<<"?">>), null_token>>
  /\ diag = "UnknownToken"
  /\ lib = <<>>



\* the first function, cell or constant of that name in a table, 0 for none
C14_first(tab, name) ==
  IF \E k \in 1..Len(tab) : tab[k].name = name
    THEN CHOOSE k \in 1..Len(tab) :
           tab[k].name = name /\ \A j \in 1..k - 1 : tab[j].name # name
    ELSE 0

\* the instruction the Name token t is to give, var_tab being the table
\* before the call and tab the table after it
C14_resolved(t, tab) ==
  IF ~compiler.count_args /\ C14_first(generate_def_functions, t.str) # 0
    THEN call_fun(C14_first(generate_def_functions, t.str))
  ELSE IF C14_first(var_tab, t.str) # 0
    THEN load_var(C14_first(var_tab, t.str))
  ELSE IF C14_first(generate_def_constants, t.str) # 0
    THEN load_val(generate_def_constants[
                    C14_first(generate_def_constants, t.str)].val)
  ELSE load_var(C14_first(tab, t.str))

\* the names for which a call of compile has to create a cell
C14_new_names ==
  {vt[i].str : i \in {k \in 1..Len(vt) :
     /\ vt[k].type = "NAME"
     /\ compiler.count_args \/ C14_first(generate_def_functions, vt[k].str) = 0
     /\ C14_first(var_tab, vt[k].str) = 0
     /\ C14_first(generate_def_constants, vt[k].str) = 0}}

\* C14: a Name token gives CallFun of the first function of that name when
\* the compiler's count_args is off, else LoadVar of the table's cell of that
\* name, else LoadVal of the constant of that name, else, create_variables
\* being on, LoadVar of a new cell; exactly one cell, initialised to V(), is
\* appended for each new name, and later occurrences of the name, in the same
\* or in a later call, load that same cell.
C14_name_resolution ==
  [][pc = "compile" /\ diag' = "" =>
       /\ \A i \in 1..Len(vt) :
            vt[i].type = "NAME" =>
              lib'[Len(lib')][i] = C14_resolved(vt[i], var_tab')
       /\ SubSeq(var_tab', 1, Len(var_tab)) = var_tab
       /\ Len(var_tab') = Len(var_tab) + Cardinality(C14_new_names)
       /\ \A n \in C14_new_names :
            /\ compiler.create_variables
            /\ Cardinality({k \in 1..Len(var_tab') : var_tab'[k].name = n}) = 1
            /\ var_tab'[C14_first(var_tab', n)].val = zero
            /\ C14_first(var_tab', n) > Len(var_tab)]_vars

C14_witness ==
  /\ pc = "compiled"
  /\ nlines = 2
  /\ diag = ""
  /\ vt = <<name_token(b_name)>>
  /\ Len(var_tab) = Len(generate_def_variables) + 1
  /\ lib = << <<load_var(Len(var_tab)), load_var(Len(var_tab))>>,
              <<load_var(Len(var_tab))>> >>



\* the inner program only loads values and variables
C15_loads_only ==
  \A i \in 1..Len(program) : program[i].op \in {"load_val", "load_var"}

\* the values the inner program leaves on the procedure's empty stack, from
\* the bottom up: instruction i leaves the i-th, the last one the top
C15_left(cells) ==
  [i \in 1..Len(program) |->
     IF program[i].op = "load_val" THEN program[i].val
     ELSE cells[program[i].cell].val]

\* a call of a procedure whose stack is empty, whose program leaves as many
\* values as out_, on a caller's stack that holds the in_ arguments
C15_at_call ==
  /\ pc = "call"
  /\ proc.stack = <<>>
  /\ C15_loads_only
  /\ proc.out = Len(program)
  /\ Len(stack) >= proc.in

\* C15: when a procedure whose inner program leaves v1 (top), v2, ..., vk on
\* its local stack is invoked with out = k, the caller's stack afterwards
\* holds those values in the same top-to-bottom order, v1 on top.
C15_order_is_preserved ==
  [][C15_at_call /\ nlines' = nlines + 1 =>
       /\ pc' = "call"
       /\ stack' = SubSeq(stack, 1, Len(stack) - Min(proc.in, Len(var_tab)))
                     \o C15_left(var_tab')]_vars



\* a run by the caller of one of the programs it has kept, which returned
C16_ran == pc = "compiled" /\ pc' = "compiled" /\ diag' = ""

\* the program run is the assignment  v c =  of the value v to the cell c
C16_assigns(p) ==
  /\ Len(p) = 3
  /\ p[1].op = "load_val"
  /\ p[2].op = "load_var"
  /\ p[3] = call_fun(function_p(generate_def_functions, <<"=">>, 1, 1))

\* the values a program of loads pushes, the last one first, when load_var
\* pushes what the cell of the variable table holds
C16_pushed(p, cells) ==
  [i \in 1..Len(p) |->
     IF p[Len(p) - i + 1].op = "load_val" THEN p[Len(p) - i + 1].val
     ELSE cells[p[Len(p) - i + 1].cell].val]

C16_loads(p) ==
  p # <<>> /\ \A i \in 1..Len(p) : p[i].op \in {"load_val", "load_var"}

\* the values of a stack from the top down
C16_top_down(st) == [i \in 1..Len(st) |-> st[Len(st) - i + 1]]

\* C16: variable cells are shared: an assignment writes the value into the
\* cell of the variable table, and every LoadVar of that cell, in whichever
\* program the caller kept, compiled before or after the assignment, pushes
\* the value the table shows (the values printed are those pushed, then
\* those an earlier throw had left on the stack).
C16_cells_are_shared ==
  [][C16_ran =>
       /\ C16_assigns(program') =>
            /\ var_tab' = [var_tab EXCEPT ![program'[2].cell].val
                                            = program'[1].val]
            /\ result' = <<program'[1].val>> \o C16_top_down(stack)
       /\ C16_loads(program') =>
            /\ var_tab' = var_tab
            /\ result' = C16_pushed(program', var_tab)
                           \o C16_top_down(stack)]_vars

\* x is loaded by a program compiled before the assignment x = 2 was, and run
\* after it
C16_witness ==
  /\ pc = "compiled"
  /\ lib = << <<load_var(1)>>,
              <<load_val(Rat(2, 1)), load_var(1),
                call_fun(function_p(generate_def_functions, <<"=">>, 1, 1))>> >>
  /\ program = <<load_var(1)>>
  /\ var_tab[1] = [name |-> x_name, val |-> Rat(2, 1)]
  /\ result = <<Rat(2, 1)>>



C17_is_constant(name) ==
  \E k \in 1..Len(generate_def_constants) :
    generate_def_constants[k].name = name

C17_value(name) ==
  generate_def_constants[CHOOSE k \in 1..Len(generate_def_constants) :
                           generate_def_constants[k].name = name].val

\* the program run assigns to what a constant name was compiled to
C17_assigns_to_constant(p) ==
  /\ Len(p) = 3
  /\ p[1].op = "load_val"
  /\ \E k \in 1..Len(generate_def_constants) :
       p[2] = load_val(generate_def_constants[k].val)
  /\ p[3] = call_fun(function_p(generate_def_functions, <<"=">>, 1, 1))

\* C17: no parse, compile or run changes a constant: a constant name always
\* compiles to LoadVal of the constant's value, never to LoadVar; no cell of
\* the variable table ever takes the name of a constant; and an assignment
\* whose target is a constant raises InvalidAssign and writes no cell.
C17_constants_are_immutable ==
  [][/\ pc = "compile" /\ diag' = "" =>
          \A i \in 1..Len(vt) :
            vt[i].type = "NAME" /\ C17_is_constant(vt[i].str) =>
              lib'[Len(lib')][i] = load_val(C17_value(vt[i].str))
     /\ \A k \in 1..Len(var_tab') : ~C17_is_constant(var_tab'[k].name)
     /\ pc = "compiled" /\ pc' = "compiled"
          /\ C17_assigns_to_constant(program') =>
            diag' = "InvalidAssign" /\ var_tab' = var_tab]_vars

\* Pi = 2 has been compiled and run
C17_witness ==
  /\ pc = "compiled"
  /\ program = <<load_val(Rat(2, 1)), load_val(C17_value(<<"P", "i">>)),
                 call_fun(function_p(generate_def_functions, <<"=">>, 1, 1))>>
  /\ diag = "InvalidAssign"
  /\ stack = <<Rat(2, 1)>>
  /\ var_tab = generate_def_variables



C18_names(tab) == {tab[k].name : k \in 1..Len(tab)}

\* C18: the names of the variable table, pairwise distinct and disjoint from
\* the constant names before the calls of compile, are so after every call:
\* compile never appends a cell whose name already occurs in the variable
\* table or in the constant table.
C18_names_stay_unique ==
  /\ Cardinality(C18_names(var_tab)) = Len(var_tab)
  /\ C18_names(var_tab) \cap C18_names(generate_def_constants) = {}

\* b b has been compiled, then b sin: one cell for b and one for sin
C18_witness ==
  /\ pc = "compiled"
  /\ nlines = 2
  /\ compiler.create_variables
  /\ vt = <<name_token(b_name), name_token(<<"s", "i", "n">>)>>
  /\ Len(lib) = 2
  /\ lib[1] = <<load_var(5), load_var(5)>>
  /\ lib[2] = <<load_var(5), load_var(6)>>
  /\ Len(var_tab) = 6



\* the working text postfix_operators starts from: the line wrapped, without
\* blanks
C19_wrapped(e) == remove_blanks(wrap(ops_array, e).str)

\* the line passes validation and wrapping, and postfix_operators returns
C19_spliced(e) ==
  /\ validate(ops_array, e) = "none"
  /\ wrap(ops_array, e).err = "none"
  /\ postfix_operators(ops_array, C19_wrapped(e), count_args).err = "none"
  /\ postfix_operators(ops_array, C19_wrapped(e), count_args).str
       # C19_wrapped(e)

C19_assignments(tokens) ==
  SelectSeq(tokens, LAMBDA t : t.type = "OPERATOR" /\ t.str = <<"=">>)

\* C19: every splice of postfix_operators, for swap = false and swap = true
\* alike, puts a fragment enclosed in one matching pair of parentheses, so
\* the working text has balanced parentheses once the splices are made, and
\* the second operator of x = y = 2 takes the fragment of the first as its
\* left operand: both = become Operator tokens.
C19_fragments_are_enclosed ==
  [][pc = "parse" =>
       /\ C19_spliced(expr) =>
            C7_balanced(postfix_operators(ops_array, C19_wrapped(expr),
                                          count_args).str)
       /\ expr = <<"x", " ", "=", " ", "y", " ", "=", " ", "2">> =>
            /\ pc' = "compile"
            /\ Len(C19_assignments(vt')) = 2
            /\ \A i \in 1..Len(vt') : vt'[i].type # "UNKNOWN"]_vars



\* the dimension of the operands of a line of TupleLines: 1 or 3
C20_dimension(e) == IF e \in TupleLinesOf(1) THEN 1 ELSE 3

\* C20: with count_args on, a binary operator whose operands are tuples of
\* k top-level components, each yielding one value, gets largs = k and
\* rargs = k, whatever the components are: literals, names or operator
\* sub-expressions. The operator between the tuples is the last token.
C20_args_are_dimensions ==
  [][pc = "parse" /\ count_args /\ expr \in TupleLines =>
       /\ pc' = "compile"
       /\ vt'[Len(vt')].type = "OPERATOR"
       /\ vt'[Len(vt')].str = <<"+">>
       /\ vt'[Len(vt')].largs = C20_dimension(expr)
       /\ vt'[Len(vt')].rargs = C20_dimension(expr)]_vars



\* the machine is about to call the assignment of triples, the three
\* instructions before the call load three different variables, and the stack
\* holds the three values and the three values of the variables
C21_at_assign ==
  /\ pc = "loop"
  /\ ip < Len(program)
  /\ ip >= 3
  /\ program[ip + 1].op = "call_fun"
  /\ generate_def_functions[program[ip + 1].fun] = vector_assign(3)
  /\ \A k \in 0..2 : program[ip - k].op = "load_var"
  /\ Cardinality({program[ip - k].cell : k \in 0..2}) = 3
  /\ Len(stack) >= 6

\* the cell loaded by the instruction k places before the assignment
C21_cell(k) == program[ip + 1 - k].cell

\* C21: running (x,y,z) = (a,b,c), RPN a b c x y z =[ 3 3 3 ], assigns
\* component-wise through the three LoadVar instructions at ip-3, ip-2 and
\* ip-1: x = a, y = b, z = c; the three pushed values of the variables are
\* removed and a, b, c stay on the stack in their order, c on top.
C21_assigns_component_wise ==
  [][C21_at_assign =>
       /\ pc' = "loop"
       /\ stack' = SubSeq(stack, 1, Len(stack) - 3)
       /\ var_tab'[C21_cell(3)].val = stack[Len(stack) - 5]
       /\ var_tab'[C21_cell(2)].val = stack[Len(stack) - 4]
       /\ var_tab'[C21_cell(1)].val = stack[Len(stack) - 3]
       /\ \A c \in 1..Len(var_tab) :
            c \notin {C21_cell(1), C21_cell(2), C21_cell(3)} =>
              var_tab'[c] = var_tab[c]]_vars

\* (x,y,z) = (1,2,3) has run from its first instruction on an empty stack
C21_witness ==
  /\ pc = "returned"
  /\ expr = <<"(", "x", ",", "y", ",", "z", ")", " ", "=", " ",
              "(", "1", ",", "2", ",", "3", ")">>
  /\ entry = 0
  /\ stack = <<Rat(1, 1), Rat(2, 1), Rat(3, 1)>>
  /\ var_tab[1].val = Rat(1, 1)
  /\ var_tab[2].val = Rat(2, 1)
  /\ var_tab[3].val = Rat(3, 1)



\* the machine is about to call the scalar assignment at an index ip >= 1, on
\* a stack that holds a value to remove
C22_at_assign ==
  /\ pc = "loop"
  /\ ip >= 1
  /\ ip < Len(program)
  /\ program[ip + 1].op = "call_fun"
  /\ generate_def_functions[program[ip + 1].fun] = scalar_assign
  /\ stack # <<>>

\* C22: the scalar = instruction at index ip >= 1 raises InvalidAssign if and
\* only if program[ip - 1] is not a LoadVar instruction; when it is raised no
\* variable cell has been modified, and run stops: no later instruction is
\* executed.
C22_invalid_assign ==
  [][/\ C22_at_assign =>
          /\ pc' = "thrown" <=> program[ip].op # "load_var"
          /\ pc' = "thrown" => diag' = "InvalidAssign" /\ var_tab' = var_tab
     /\ pc = "thrown" => UNCHANGED vars]_vars

\* e = 2 has thrown at its assignment: the instruction before it loads the
\* value of the constant
C22_witness ==
  /\ pc = "thrown"
  /\ diag = "InvalidAssign"
  /\ expr = <<"e", " ", "=", " ", "2">>
  /\ ip = 2
  /\ program[ip].op = "load_val"
  /\ var_tab = generate_def_variables



\* the machine is about to run the effect of the instruction at index ip
C23_at_effect == pc = "loop" /\ ip < Len(program)

\* the instruction whose effect runs is the scalar assignment, on a stack that
\* holds the value of its variable and the value to assign
C23_assigns ==
  /\ program[ip + 1].op = "call_fun"
  /\ generate_def_functions[program[ip + 1].fun] = scalar_assign
  /\ Len(stack) >= 2

\* what shows the value p of rte.ip while the effect runs: a throw leaves run
\* with ip = p, and the scalar assignment takes its variable from the
\* instruction at index p - 1
C23_seen(p) ==
  /\ pc' = "thrown" => ip' = p
  /\ C23_assigns /\ p >= 1 =>
       /\ pc' = "thrown" <=> program[p].op # "load_var"
       /\ pc' # "thrown" =>
            var_tab'[program[p].cell].val = stack[Len(stack) - 1]

C24_starts ==
  {i \in 1..Len(answers) : answers[i] /\ (i = 1 \/ ~answers[i - 1])}

\* the last character of the span that starts at i, among those read so far
C24_end(i) ==
  CHOOSE j \in i..Len(answers) :
    /\ \A k \in i..j : answers[k]
    /\ j = Len(answers) \/ ~answers[j + 1]

C24_points(i, j) == {k \in i..j : expr[k] = DOT}

C24_exponents(i, j) == {k \in i..j : IsE(expr[k])}

C24_signs(i, j) == {k \in i..j : expr[k] \in {PLUS, MINUS}}

\* expr[i..j] has the shape of a number
C24_number_shaped(i, j) ==
  /\ IsDigit(expr[i]) \/ expr[i] = DOT
  /\ Cardinality(C24_points(i, j)) <= 1
  /\ \A p \in C24_points(i, j), x \in C24_exponents(i, j) : p < x
  /\ Cardinality(C24_exponents(i, j)) <= 1
  /\ \A k \in C24_signs(i, j) : k > i /\ IsE(expr[k - 1])

\* C24: every maximal span of characters the number matcher accepts, from a
\* fresh state on, starts with a digit or a decimal point, holds at most one
\* decimal point and none after the exponent letter, at most one exponent
\* letter E or e, and a + or - only right after the exponent letter; after
\* any character it rejects the matcher is back in its initial state.
C24_spans_are_number_shaped ==
  /\ \A i \in C24_starts : C24_number_shaped(i, C24_end(i))
  /\ answers # <<>> /\ ~answers[Len(answers)] => mn = match_number_new

\* 2.e-2 has been accepted whole and the x after it rejected
C24_witness ==
  /\ expr = <<"2", DOT, "e", MINUS, "2", "x">>
  /\ answers = <<TRUE, TRUE, TRUE, TRUE, TRUE, FALSE>>
  /\ mn = match_number_new



\* the function the default table gives for the operator descriptor o
C25_counterpart(o) ==
  function_p(generate_def_functions, o.name, o.rargs, o.largs)

\* the descriptor o has a function of its name, its sizes and its number of
\* values returned
C25_has_counterpart(o) ==
  /\ C25_counterpart(o) # 0
  /\ generate_def_functions[C25_counterpart(o)].values_out = o.outvals

\* the operator tokens of the line that compile refuses
C25_refused ==
  {i \in 1..Len(vt) :
     /\ vt[i].type = "OPERATOR"
     /\ compile_token(vt[i], rt(program), compiler.count_args,
                      compiler.create_variables).err = "UnknownToken"}

C25_minus_x == <<"-", "x">>

\* C25: every operator descriptor of the console's table has a counterpart
\* in the default function table, of the same name and sizes and returning
\* outsize values; so with count_args on no Operator token parse returns
\* makes compile fail with UnknownToken, and -x compiles and leaves the
\* negation of x on the stack.
C25_operators_have_functions ==
  [][/\ \A i \in 1..Len(ops_array) : C25_has_counterpart(ops_array[i])
     /\ pc = "compile" /\ count_args =>
          /\ C25_refused = {}
          /\ expr = C25_minus_x => pc' = "run"
     /\ pc = "run" /\ count_args /\ expr = C25_minus_x /\ pc' = "print" =>
          stack' = <<neg(var_tab[1].val)>>]_vars



\* the line has been parsed and compiled with count_args on in the parser
\* and in the compiler, and the machine is about to run its program
C26_at_run == pc = "run" /\ count_args /\ compiler.count_args

\* C26: with count_args on in parser and compiler, running a program got by
\* parse and a successful compile against the default run-time environment
\* never pops, or reads the top of, an empty value stack: at every CallFun
\* the stack holds at least values_in values, also for a line with empty
\* parentheses such as ()+1.
C26_no_read_of_empty_stack ==
  [][C26_at_run =>
       /\ pc' # "aborted"
       /\ \A g \in Garbage : ~run(rt(program), 0, g).ub]_vars



\* C27: a compile call that fails, with UnknownToken or NullToken, leaves the
\* run-time environment as it was before the call: the variable table holds
\* no cell created for a Name token that came before the failing token.
C27_failed_compile_changes_nothing ==
  [][pc = "compile" /\ diag' \in {"UnknownToken", "NullToken"} =>
       var_tab' = var_tab]_vars



\* the machine is about to call a vector assignment
C28_at_assign ==
  /\ pc = "loop"
  /\ ip < Len(program)
  /\ program[ip + 1].op = "call_fun"
  /\ generate_def_functions[program[ip + 1].fun].kind = "vector_assign"

\* C28: when a vector assignment of arity N raises InvalidAssign because one
\* of the N instructions before it is not a LoadVar, none of the destination
\* variables has been modified: the assignment is all-or-nothing.
C28_all_or_nothing ==
  [][C28_at_assign /\ pc' = "thrown" /\ diag' = "InvalidAssign" =>
       var_tab' = var_tab]_vars



\* C29: in the loop of the console the value stack of the machine is empty
\* when the evaluation of an expression line starts, after any lines before
\* it, those whose parse, compile or run ended in a diagnostic included; so
\* the values printed for a line are those the line produced.
C29_stack_is_empty_at_line_start ==
  pc \in {"parse", "compile", "run"} => stack = <<>>



\* the scalar lines of the console: assignments of a literal to a variable
\* and sums, differences, products and quotients of variables
C30_scalar == expr \in AssignLines \cup ArithLines

\* what the run of the line gives when it is parsed with count_args on,
\* compiled and run from the state the console is in
C30_with_count_args ==
  LET c == compile(parse(ops_array, expr, TRUE).tokens, rt(<<>>),
                   compiler.count_args, compiler.create_variables)
  IN  run(rte(generate_def_functions, c.var_tab, generate_def_constants,
              c.program, stack, 0), 0, zero)

\* C30: for scalar expressions over the default run-time environment, such
\* as x - y and x = 2, the final value stack and the values of the variables
\* do not depend on the parser's count_args setting: with count_args off the
\* operators are resolved by name alone, to the first function of that name
\* in the order of the table, and the program computes what it computes with
\* count_args on.
C30_count_args_does_not_matter ==
  [][pc = "run" /\ ~count_args /\ C30_scalar =>
       /\ pc' # "aborted"
       /\ stack' = C30_with_count_args.rt.stack
       /\ var_tab' = C30_with_count_args.rt.var_tab]_vars

====
